---------------------------- MODULE Spec2Model ----------------------------
(***************************************************************************)
(* A model of unity-api-mcp's record store (db.py), its ingestion run      *)
(* (ingest.py) and its retrieval tools (server.py).                        *)
(*                                                                         *)
(* Text is modelled at character level: a Python str is a tuple of         *)
(* one-character strings, so that LIKE, the FTS5 tokenizer, _escape_fts    *)
(* and the JSON encoding of params act on characters as the code does.     *)
(***************************************************************************)
EXTENDS Integers, Sequences, FiniteSets, TLC

VARIABLES
    tables,        \* schema objects that exist in the database file
    api_records,   \* rows of table api_records (each with its rowid)
    api_fts,       \* entries of the FTS5 index api_fts (rowid + indexed tokens)
    pc,            \* position of the ingestion run (ingest.main, phase 3)
    all_records,   \* ingest.main's all_records list
    prior,         \* the committed database when the current ingestion run began
    last_batch,    \* the list given to the most recent insert_records call
    since_clear,   \* the records inserted since the last clear_all, in order
    query,         \* the query string of the escape specification
    files,         \* the XML doc files and package source files an ingestion run reads
    scan,          \* position of the run in files and state of _parse_cs_file's line scan
    install,       \* what find_xml_paths meets on disk: environment, editors, XML files
    fs,            \* the snapshot files ensure_db reads and writes
    procs,         \* the server processes inside ensure_db, each with its position
    result         \* what the most recent retrieval call returned

vars == <<tables, api_records, api_fts, pc, all_records, prior, last_batch,
          since_clear, query, files, scan, install, fs, procs, result>>

----------------------------------------------------------------------------
(* Bounds of the model. *)

\* longest record list handed to one insert_records call
MaxBatch == 2
\* most rows inserted between two clear_all calls (caps the rowid counter)
MaxRows == 3
\* longest query string of the escape specification
MaxQueryLen == 3
MaxIngest == 4

----------------------------------------------------------------------------
(* Characters and strings. *)

\* The characters of the model in ASCII order (BINARY collation order).
Ascii ==
    << "\t", "\n", " ", "!", "\"", "%", "'", "(", ")", "*", ",", "-", ".", "/",
       "0", "1", "2", "3", "4", "5", "6", "7", "8", "9", ":", "<", "=", ">",
       "A", "B", "C", "D", "E", "F", "G", "H", "I", "J", "K", "L", "M",
       "N", "O", "P", "Q", "R", "S", "T", "U", "V", "W", "X", "Y", "Z",
       "[", "\\", "]", "_",
       "a", "b", "c", "d", "e", "f", "g", "h", "i", "j", "k", "l", "m",
       "n", "o", "p", "q", "r", "s", "t", "u", "v", "w", "x", "y", "z",
       "{", "}" >>

Chars == {Ascii[i] : i \in DOMAIN Ascii}

CodeOf == [c \in Chars |-> CHOOSE i \in DOMAIN Ascii : Ascii[i] = c]

IsUpper(c) == CodeOf[c] \in CodeOf["A"] .. CodeOf["Z"]

IsAlnum(c) ==
    \/ CodeOf[c] \in CodeOf["0"] .. CodeOf["9"]
    \/ CodeOf[c] \in CodeOf["A"] .. CodeOf["Z"]
    \/ CodeOf[c] \in CodeOf["a"] .. CodeOf["z"]

\* ASCII case folding, as SQLite's LIKE and the unicode61 tokenizer apply it.
Lower(c) == IF IsUpper(c) THEN Ascii[CodeOf[c] + (CodeOf["a"] - CodeOf["A"])] ELSE c

Range(s) == {s[i] : i \in DOMAIN s}

\* s < t in BINARY collation (code point order, a proper prefix sorts first).
RECURSIVE StrLess(_, _)
StrLess(s, t) ==
    IF t = <<>> THEN FALSE
    ELSE IF s = <<>> THEN TRUE
    ELSE IF s[1] # t[1] THEN CodeOf[s[1]] < CodeOf[t[1]]
    ELSE StrLess(Tail(s), Tail(t))

\* str.startswith: the literal, case-sensitive prefix relation.
StartsWith(s, p) == Len(p) =< Len(s) /\ SubSeq(s, 1, Len(p)) = p

\* str.replace(old, new) for a one-character old.
RECURSIVE Replace(_, _, _)
Replace(s, old, new) ==
    IF s = <<>> THEN <<>>
    ELSE (IF s[1] = old THEN new ELSE <<s[1]>>) \o Replace(Tail(s), old, new)

\* str.split(): the maximal runs of non-whitespace characters.
RECURSIVE SplitScan(_, _)
SplitScan(s, cur) ==
    IF s = <<>> THEN (IF cur = <<>> THEN <<>> ELSE <<cur>>)
    ELSE IF s[1] = " "
         THEN (IF cur = <<>> THEN <<>> ELSE <<cur>>) \o SplitScan(Tail(s), <<>>)
         ELSE SplitScan(Tail(s), Append(cur, s[1]))

Split(s) == SplitScan(s, <<>>)

\* str.strip()
RECURSIVE LStrip(_)
LStrip(s) == IF s # <<>> /\ s[1] = " " THEN LStrip(Tail(s)) ELSE s

RECURSIVE RStrip(_)
RStrip(s) ==
    IF s # <<>> /\ s[Len(s)] = " " THEN RStrip(SubSeq(s, 1, Len(s) - 1)) ELSE s

Strip(s) == RStrip(LStrip(s))

\* " ".join(parts)
RECURSIVE Join(_, _)
Join(parts, sep) ==
    IF parts = <<>> THEN <<>>
    ELSE IF Len(parts) = 1 THEN parts[1]
    ELSE parts[1] \o sep \o Join(Tail(parts), sep)

\* str.count(c)
RECURSIVE Count(_, _)
Count(s, c) ==
    IF s = <<>> THEN 0 ELSE (IF s[1] = c THEN 1 ELSE 0) + Count(Tail(s), c)

\* SQLite's LIKE: % matches any run, _ any one character, letters fold case.
RECURSIVE Like(_, _)
Like(s, pat) ==
    IF pat = <<>> THEN s = <<>>
    ELSE IF pat[1] = "%"
         THEN \E k \in 0 .. Len(s) : Like(SubSeq(s, k + 1, Len(s)), Tail(pat))
    ELSE IF s = <<>> THEN FALSE
    ELSE IF pat[1] = "_" THEN Like(Tail(s), Tail(pat))
    ELSE Lower(pat[1]) = Lower(s[1]) /\ Like(Tail(s), Tail(pat))

\* FTS5's default tokenizer (unicode61): maximal alphanumeric runs, case folded.
RECURSIVE TokScan(_, _)
TokScan(s, cur) ==
    IF s = <<>> THEN (IF cur = <<>> THEN <<>> ELSE <<cur>>)
    ELSE IF IsAlnum(s[1])
         THEN TokScan(Tail(s), Append(cur, Lower(s[1])))
         ELSE (IF cur = <<>> THEN <<>> ELSE <<cur>>) \o TokScan(Tail(s), <<>>)

Tokenize(s) == TokScan(s, <<>>)

----------------------------------------------------------------------------
(* json.dumps / json.loads of a params list (db.py:91, server.py:59-63). *)

kName == <<"n", "a", "m", "e">>
kDescription == <<"d", "e", "s", "c", "r", "i", "p", "t", "i", "o", "n">>

\* The escapes json.dumps applies to the characters of the model.
RECURSIVE EscapeJson(_)
EscapeJson(s) ==
    IF s = <<>> THEN <<>>
    ELSE (IF s[1] = "\"" THEN <<"\\", "\"">>
          ELSE IF s[1] = "\\" THEN <<"\\", "\\">>
          ELSE <<s[1]>>) \o EscapeJson(Tail(s))

JsonString(s) == <<"\"">> \o EscapeJson(s) \o <<"\"">>

\* A plausible slip: the values of the two keys exchanged.
JsonObjectSwapped(p) ==
    <<"{">> \o JsonString(kName) \o <<":", " ">> \o JsonString(p.description)
            \o <<",", " ">>
            \o JsonString(kDescription) \o <<":", " ">> \o JsonString(p.name)
            \o <<"}">>

JsonObject(p) ==
    <<"{">> \o JsonString(kName) \o <<":", " ">> \o JsonString(p.name)
            \o <<",", " ">>
            \o JsonString(kDescription) \o <<":", " ">> \o JsonString(p.description)
            \o <<"}">>

\* json.dumps(r["params_json"]) with the default separators ", " and ": ".
json_dumps(params) ==
    <<"[">> \o Join([i \in DOMAIN params |-> JsonObject(params[i])], <<",", " ">>)
            \o <<"]">>

\* json.loads: a string literal whose opening quote is at position i - 1.
RECURSIVE ParseStrBody(_, _, _)
ParseStrBody(s, i, acc) ==
    IF s[i] = "\"" THEN [val |-> acc, next |-> i + 1]
    ELSE IF s[i] = "\\" THEN ParseStrBody(s, i + 2, Append(acc, s[i + 1]))
    ELSE ParseStrBody(s, i + 1, Append(acc, s[i]))

\* The members of an object; i is the position of the opening quote of a key.
RECURSIVE ParseMembers(_, _, _)
ParseMembers(s, i, acc) ==
    LET k == ParseStrBody(s, i + 1, <<>>)
        v == ParseStrBody(s, k.next + 3, <<>>)
        got == acc \cup {<<k.val, v.val>>}
    IN  IF s[v.next] = "}" THEN [val |-> got, next |-> v.next + 1]
        ELSE ParseMembers(s, v.next + 2, got)

Member(obj, key) == (CHOOSE p \in obj : p[1] = key)[2]

\* The items of an array; i is the position of the "{" of an item.
RECURSIVE ParseItems(_, _, _)
ParseItems(s, i, acc) ==
    LET o == ParseMembers(s, i + 1, {})
        item == [name |-> Member(o.val, kName),
                 description |-> Member(o.val, kDescription)]
    IN  IF s[o.next] = "]" THEN Append(acc, item)
        ELSE ParseItems(s, o.next + 2, Append(acc, item))

json_loads(s) == IF s[2] = "]" THEN <<>> ELSE ParseItems(s, 2, <<>>)

----------------------------------------------------------------------------
(* Canonical records: the dicts the parsers hand to insert_records. *)

sGame == <<"G", "a", "m", "e">>
sFx == <<"F", "x">>
sUI == <<"U", "I">>
sRay == <<"R", "a", "y">>
sHit == <<"H", "i", "t">>
sCast == <<"C", "a", "s", "t">>
sUnityEngine == <<"U", "n", "i", "t", "y", "E", "n", "g", "i", "n", "e">>
sUnityEditor == <<"U", "n", "i", "t", "y", "E", "d", "i", "t", "o", "r">>
sType == <<"t", "y", "p", "e">>
sMethod == <<"m", "e", "t", "h", "o", "d">>
Dot == <<".">>

ApiRecord(fqn, ns, cls, mem, mt, summary, params, returns, dep, hint) ==
    [fqn |-> fqn, namespace |-> ns, class_name |-> cls, member_name |-> mem,
     member_type |-> mt, summary |-> summary, params_json |-> params,
     returns_text |-> returns, deprecated |-> dep, deprecation_hint |-> hint]

\* T:Game.Ray
recRay ==
    ApiRecord(sGame \o Dot \o sRay, sGame, sRay, <<>>, sType,
              <<"c", "a", "s", "t", " ", "i", "t", " ", "s", "o">>,
              <<>>, <<>>, FALSE, <<>>)

\* T:Game.Ray again, from a second doc file: same fqn, other content
recRayDup ==
    ApiRecord(sGame \o Dot \o sRay, sGame, sRay, <<>>, sType,
              <<"o", "b", "s", "o", "l", "e", "t", "e">>,
              <<>>, <<>>, TRUE, <<>>)

\* T:UnityEngine.UI.Ray
recUIRay ==
    ApiRecord(sUnityEngine \o Dot \o sUI \o Dot \o sRay,
              sUnityEngine \o Dot \o sUI, sRay, <<>>, sType,
              <<"c", "a", "s", "t", " ", "i", "t">>,
              <<>>, <<>>, FALSE, <<>>)

\* T:Game.Fx.Ray
recFxRay ==
    ApiRecord(sGame \o Dot \o sFx \o Dot \o sRay,
              sGame \o Dot \o sFx, sRay, <<>>, sType,
              <<"c", "a", "s", "t", " ", "i", "t">>,
              <<>>, <<>>, FALSE, <<>>)

\* M:Game.Ray.Hit(a), with a parameter whose description needs JSON escapes
recHitA ==
    ApiRecord(sGame \o Dot \o sRay \o Dot \o sHit \o <<"(", "a", ")">>,
              sGame, sRay, sHit, sMethod,
              <<"h", "i", "t", " ", "i", "t">>,
              << [name |-> <<"a">>, description |-> <<"\"", "x", "\\">>],
                 [name |-> <<"b">>, description |-> <<>>] >>,
              <<"o", "k">>, FALSE, <<>>)

\* M:Game.Ray.Hit(b), deprecated with a replacement hint
recHitB ==
    ApiRecord(sGame \o Dot \o sRay \o Dot \o sHit \o <<"(", "b", ")">>,
              sGame, sRay, sHit, sMethod,
              <<"u", "s", "e", " ", "C", "a", "s", "t", " ",
                "i", "n", "s", "t", "e", "a", "d">>,
              <<>>, <<>>, TRUE, sCast)

\* M:Game.Ray.Ray, a method named as its class
recRayRay ==
    ApiRecord(sGame \o Dot \o sRay \o Dot \o sRay, sGame, sRay, sRay, sMethod,
              <<"i", "t">>, <<>>, <<>>, FALSE, <<>>)

\* P:Game.Ray.Len
recRayLen ==
    ApiRecord(sGame \o Dot \o sRay \o Dot \o <<"L", "e", "n">>, sGame, sRay,
              <<"L", "e", "n">>, <<"p", "r", "o", "p", "e", "r", "t", "y">>,
              <<"i", "t">>, <<>>, <<>>, FALSE, <<>>)

\* T:Ray, a type of the global namespace
recGlobalRay ==
    ApiRecord(sRay, <<>>, sRay, <<>>, sType, <<"i", "t">>, <<>>, <<>>, FALSE, <<>>)

Corpus == <<recRay, recRayDup, recUIRay, recFxRay, recHitA, recHitB>>

\* The records the ingestion runs of the serving specification find.
ToolCorpus == Corpus \o <<recRayRay, recRayLen, recGlobalRay>>

CorpusSet == Range(Corpus)

\* Record lists of at most n records.
Lists(n) == UNION {[1 .. k -> CorpusSet] : k \in 0 .. n}

----------------------------------------------------------------------------
(* The database: schema objects, table rows and index entries. *)

tRecords == "api_records"
tFts == "api_fts"
trgInsert == "api_records_ai"
trgDelete == "api_records_ad"

\* PRAGMA recursive_triggers: off by default, and get_connection sets only
\* journal_mode.  With it off, the rows that INSERT OR REPLACE deletes to
\* resolve a conflict fire no DELETE trigger.
recursive_triggers == FALSE

Db(t, r, f) == [tables |-> t, records |-> r, fts |-> f]

NoDb == Db({}, {}, {})

\* What the FTS5 index holds for a row: its rowid and the tokens of the four
\* indexed columns.
FtsEntry(row) ==
    [rowid |-> row.rowid,
     fqn |-> Tokenize(row.fqn),
     class_name |-> Tokenize(row.class_name),
     member_name |-> Tokenize(row.member_name),
     summary |-> Tokenize(row.summary)]

\* The tuple insert_records binds to the statement for record r.
RowOf(r, rowid) ==
    [rowid |-> rowid,
     fqn |-> r.fqn, namespace |-> r.namespace, class_name |-> r.class_name,
     member_name |-> r.member_name, member_type |-> r.member_type,
     summary |-> r.summary, params_json |-> json_dumps(r.params_json),
     returns_text |-> r.returns_text,
     deprecated |-> IF r.deprecated THEN 1 ELSE 0,
     deprecation_hint |-> r.deprecation_hint]

MaxRowid(rows) ==
    IF rows = {} THEN 0
    ELSE CHOOSE n \in {x.rowid : x \in rows} : \A x \in rows : x.rowid =< n

\* DROP TABLE IF EXISTS api_fts
DropFts(db) == Db(db.tables \ {tFts}, db.records, {})

\* DROP TABLE IF EXISTS api_records (its triggers go with it)
DropRecords(db) == Db(db.tables \ {tRecords, trgInsert, trgDelete}, {}, db.fts)

\* CREATE TABLE IF NOT EXISTS api_records
CreateRecords(db) == Db(db.tables \cup {tRecords}, db.records, db.fts)

\* CREATE VIRTUAL TABLE IF NOT EXISTS api_fts
CreateFts(db) == Db(db.tables \cup {tFts}, db.records, db.fts)

\* CREATE TRIGGER IF NOT EXISTS t AFTER ... ON api_records
CreateTrigger(db, t) ==
    IF tRecords \in db.tables THEN Db(db.tables \cup {t}, db.records, db.fts)
    ELSE db

init_db(db) ==
    CreateTrigger(CreateTrigger(CreateFts(CreateRecords(db)), trgInsert), trgDelete)

clear_all(db) == init_db(DropRecords(DropFts(db)))

\* The rows an INSERT OR REPLACE deletes first: those holding the new fqn.
Conflicting(rows, r) == {x \in rows : x.fqn = r.fqn}

\* A plausible slip: INSERT OR IGNORE, which keeps the row already there.
InsertOrIgnore(db, r) ==
    LET new == RowOf(r, MaxRowid(db.records) + 1)
    IN  IF Conflicting(db.records, r) # {} THEN db
        ELSE Db(db.tables, db.records \cup {new},
                IF trgInsert \in db.tables /\ tFts \in db.tables
                THEN db.fts \cup {FtsEntry(new)} ELSE db.fts)

\* One INSERT OR REPLACE INTO api_records, with the triggers it fires.
InsertOrReplace(db, r) ==
    LET new == RowOf(r, MaxRowid(db.records) + 1)
        gone == Conflicting(db.records, r)
        fireDelete == recursive_triggers /\ trgDelete \in db.tables
        ftsKept == IF fireDelete
                   THEN {e \in db.fts : e.rowid \notin {x.rowid : x \in gone}}
                   ELSE db.fts
        ftsNew == IF trgInsert \in db.tables /\ tFts \in db.tables
                  THEN ftsKept \cup {FtsEntry(new)}
                  ELSE ftsKept
    IN  Db(db.tables, (db.records \ gone) \cup {new}, ftsNew)

RECURSIVE ExecuteMany(_, _)
ExecuteMany(db, records) ==
    IF records = <<>> THEN db
    ELSE ExecuteMany(InsertOrReplace(db, records[1]), Tail(records))

\* insert_records: executemany in one transaction, then commit.  Without the
\* table the statement fails and nothing is written.
insert_records(db, records) ==
    IF tRecords \in db.tables THEN ExecuteMany(db, records) ELSE db

\* The database the variables hold.
Cur == Db(tables, api_records, api_fts)

SetDb(db) ==
    /\ tables' = db.tables
    /\ api_records' = db.records
    /\ api_fts' = db.fts

\* dict(row): the columns of SELECT *, without the rowid.
RowDict(row) ==
    [fqn |-> row.fqn, namespace |-> row.namespace, class_name |-> row.class_name,
     member_name |-> row.member_name, member_type |-> row.member_type,
     summary |-> row.summary, params_json |-> row.params_json,
     returns_text |-> row.returns_text, deprecated |-> row.deprecated,
     deprecation_hint |-> row.deprecation_hint]

\* get_by_fqn: SELECT * FROM api_records WHERE fqn = ? (BINARY comparison),
\* fetchone.  The result is <<>> for None and <<dict(row)>> otherwise.
get_by_fqn(db, fqn) ==
    LET hit == {x \in db.records : x.fqn = fqn}
    IN  IF hit = {} THEN <<>> ELSE <<RowDict(CHOOSE x \in hit : TRUE)>>

----------------------------------------------------------------------------
(* Free-text search: _escape_fts, the FTS5 MATCH and the ranking of search. *)

Quote == <<"\"">>
Space == <<" ">>

\* A plausible slip: the double quotes of the query are not deleted.
escape_fts_keeps_quotes(q) ==
    LET replaced ==
            Replace(Replace(Replace(Replace(Replace(q,
                ".", Space), "*", <<>>), "-", Space), "(", Space), ")", Space)
        terms == Split(replaced)
    IN  IF terms # <<>>
        THEN Join([i \in DOMAIN terms |-> Quote \o terms[i] \o Quote], Space)
        ELSE replaced

\* _escape_fts: dots, hyphens and parentheses become spaces, quotes and
\* asterisks are deleted, the rest is split at whitespace and each term is
\* put in double quotes; the replaced query itself when no term is left.
escape_fts(q) ==
    LET replaced ==
            Replace(Replace(Replace(Replace(Replace(Replace(q,
                ".", Space), "\"", <<>>), "*", <<>>), "-", Space), "(", Space),
                ")", Space)
        terms == Split(replaced)
    IN  IF terms # <<>>
        THEN Join([i \in DOMAIN terms |-> Quote \o terms[i] \o Quote], Space)
        ELSE replaced

\* FTS5's reading of a MATCH expression made of quoted strings: the strings,
\* in order.  i is the position scanned, cur the open string or <<"none">>.
RECURSIVE QuotedScan(_, _, _)
QuotedScan(s, i, cur) ==
    IF i > Len(s) THEN <<>>
    ELSE IF cur = <<"none">>
         THEN (IF s[i] = "\"" THEN QuotedScan(s, i + 1, <<>>)
               ELSE QuotedScan(s, i + 1, cur))
    ELSE IF s[i] = "\"" THEN <<cur>> \o QuotedScan(s, i + 1, <<"none">>)
    ELSE QuotedScan(s, i + 1, Append(cur, s[i]))

\* The characters of a MATCH expression outside its quoted strings, and
\* whether its last string is closed.  (A doubled quote inside a string,
\* FTS5's escape, closes and reopens the string here: the strings are closed
\* in both readings.)
RECURSIVE LexScan(_, _, _, _)
LexScan(s, i, open, outside) ==
    IF i > Len(s) THEN [closed |-> ~open, outside |-> outside]
    ELSE IF s[i] = "\"" THEN LexScan(s, i + 1, ~open, outside)
    ELSE IF open THEN LexScan(s, i + 1, open, outside)
    ELSE LexScan(s, i + 1, open, outside \cup {s[i]})

\* The characters FTS5's query grammar gives a meaning outside a string:
\* those of barewords and its operators.
FtsGrammarChars ==
    {c \in Chars : IsAlnum(c)} \cup {"_", "(", ")", "*", "-", ":", ",", "{", "}"}

\* What api_fts MATCH ? does with an expression: "phrases" when it is made
\* of closed strings and spaces only, "error" (sqlite3.OperationalError) when
\* a string is not closed or a character outside the strings is none the
\* grammar knows, and "grammar" when barewords or operators stand outside
\* the strings, where the grammar decides between the two.
MatchSyntax(clean) ==
    LET lex == LexScan(clean, 1, FALSE, {})
    IN  IF ~lex.closed THEN "error"
        ELSE IF lex.outside \subseteq {" "} THEN "phrases"
        ELSE IF lex.outside \subseteq (FtsGrammarChars \cup {" "}) THEN "grammar"
        ELSE "error"

\* The exception conn.execute raises, in the place of the rows.
SqlError == [error |-> "sqlite3.OperationalError"]

\* The outcomes of a MATCH statement whose rows would be found.
MatchOutcome(clean, found) ==
    LET syntax == MatchSyntax(clean)
    IN  IF syntax = "error" THEN {<<SqlError>>}
        ELSE IF syntax = "phrases" THEN found
        ELSE found \cup {<<SqlError>>}

\* The phrases of a MATCH expression: each quoted string tokenized; a string
\* without any token is no phrase.
MatchPhrases(clean) ==
    LET strs == QuotedScan(clean, 1, <<"none">>)
        toks == [i \in DOMAIN strs |-> Tokenize(strs[i])]
    IN  SelectSeq(toks, LAMBDA t : t # <<>>)

FtsColumns == {"fqn", "class_name", "member_name", "summary"}

\* The number of places where the phrase occurs in a column's token list.
Occurrences(tokens, phrase) ==
    Cardinality({k \in 1 .. (Len(tokens) - Len(phrase) + 1) :
                    SubSeq(tokens, k, k + Len(phrase) - 1) = phrase})

EntryHas(entry, phrase) ==
    \E c \in FtsColumns : Occurrences(entry[c], phrase) > 0

\* api_fts MATCH ?: every phrase occurs in the entry (none: no match).
Matches(entry, phrases) ==
    /\ phrases # <<>>
    /\ \A i \in DOMAIN phrases : EntryHas(entry, phrases[i])

DocSize(entry) ==
    Len(entry.fqn) + Len(entry.class_name) + Len(entry.member_name)
        + Len(entry.summary)

RECURSIVE SumOver(_, _)
SumOver(S, f) ==
    IF S = {} THEN 0
    ELSE LET x == CHOOSE y \in S : TRUE IN f[x] + SumOver(S \ {x}, f)

\* ln(k) in millionths, for the odd k that 2 * (rows) + 1 can take.
LnMicro ==
    [k \in {1, 3, 5, 7, 9, 11, 13, 15, 17, 19} |->
        CASE k = 1 -> 0
          [] k = 3 -> 1098612
          [] k = 5 -> 1609438
          [] k = 7 -> 1945910
          [] k = 9 -> 2197225
          [] k = 11 -> 2397895
          [] k = 13 -> 2564949
          [] k = 15 -> 2708050
          [] k = 17 -> 2833213
          [] k = 19 -> 2944439]

\* FTS5's inverse document frequency, in millionths:
\* log((nRow - nHit + 0.5) / (nHit + 0.5)), and 1e-6 when that is not positive.
Idf(nRow, nHit) ==
    LET a == 2 * (nRow - nHit) + 1
        b == 2 * nHit + 1
    IN  IF a > b THEN LnMicro[a] - LnMicro[b] ELSE 1

\* The column weights search passes to bm25(api_fts, 1.0, 5.0, 10.0, 0.5), in
\* halves, in the column order fqn, class_name, member_name, summary.
SearchWeights ==
    [fqn |-> 2, class_name |-> 10, member_name |-> 20, summary |-> 1]

\* The weights of a bare bm25(api_fts) call: 1.0 for each column.
PlainWeights ==
    [fqn |-> 2, class_name |-> 2, member_name |-> 2, summary |-> 2]

\* num / den in millionths, rounded down (long division in two steps of
\* three digits, which keeps every intermediate value within 32 bits).
QuotMicro(num, den) ==
    LET scaled == num * 1000
    IN  (scaled \div den) * 1000 + ((scaled % den) * 1000) \div den

\* The product of two numbers given in millionths, in millionths.
MulMicro(a, b) ==
    LET ah == a \div 1000
        al == a % 1000
        bh == b \div 1000
        bl == b % 1000
    IN  ah * bh + (ah * bl + al * bh) \div 1000 + (al * bl) \div 1000000

\* FTS5's bm25() of an entry, in millionths (k1 = 1.2, b = 0.75): minus the sum
\* over the phrases of idf * f * (k1 + 1) / (f + k1 * (1 - b + b * D / avgdl)),
\* f the weighted number of occurrences, D the entry's token count and avgdl
\* the average over the index.  With fh = 2 f, T the tokens of the index and
\* N its entries the quotient is 11 fh T / (5 fh T + 3 T + 9 D N).
bm25(fts, entry, phrases, weights) ==
    LET N == Cardinality(fts)
        T == SumOver(fts, [e \in fts |-> DocSize(e)])
        D == DocSize(entry)
        fh(ph) == SumOver(FtsColumns,
                          [c \in FtsColumns |-> weights[c] * Occurrences(entry[c], ph)])
        hits(ph) == Cardinality({e \in fts : EntryHas(e, ph)})
        term(ph) ==
            MulMicro(Idf(N, hits(ph)),
                     QuotMicro(11 * fh(ph) * T, 5 * fh(ph) * T + 3 * T + 9 * D * N))
        idx == DOMAIN phrases
    IN  0 - SumOver(idx, [i \in idx |-> term(phrases[i])])

\* A plausible slip: the sign of the depth term reversed.
DepthBonus(ns) == 0 - (Len(ns) - Len(Replace(ns, ".", <<>>))) * 500000

\* (LENGTH(namespace) - LENGTH(REPLACE(namespace, '.', ''))) * 0.5
DepthPenalty(ns) == (Len(ns) - Len(Replace(ns, ".", <<>>))) * 500000

\* CASE WHEN namespace IN ('UnityEngine', 'UnityEditor') THEN -2.0
\*      WHEN namespace LIKE 'UnityEngine.%' OR namespace LIKE 'UnityEditor.%'
\*      THEN -1.0 ELSE 0.0 END
CoreBonus(ns) ==
    IF ns \in {sUnityEngine, sUnityEditor} THEN 0 - 2000000
    ELSE IF \/ Like(ns, sUnityEngine \o <<".", "%">>)
            \/ Like(ns, sUnityEditor \o <<".", "%">>)
         THEN 0 - 1000000
    ELSE 0

\* CASE WHEN member_type = 'type' THEN -1.0 ELSE 0.0 END
TypeBonus(mt) == IF mt = sType THEN 0 - 1000000 ELSE 0

\* The ranking expression of search, in millionths.
Ranking(fts, entry, row, phrases) ==
    bm25(fts, entry, phrases, SearchWeights)
        + DepthPenalty(row.namespace) + CoreBonus(row.namespace)
        + TypeBonus(row.member_type)

\* The orders in which ORDER BY may return the rows of S: before holds the
\* pairs <<a, b>> where a sorts strictly before b; rows that tie come in any
\* order.
RECURSIVE SortedSeqs(_, _)
SortedSeqs(S, before) ==
    IF S = {} THEN {<<>>}
    ELSE UNION {{<<x>> \o t : t \in SortedSeqs(S \ {x}, before)} :
                  x \in {y \in S : \A z \in S : <<z, y>> \notin before}}

\* LIMIT n
Limit(seq, n) == SubSeq(seq, 1, IF Len(seq) < n THEN Len(seq) ELSE n)

\* member_type = None
NoFilter == <<>>

\* FROM api_fts f JOIN api_records r ON r.rowid = f.rowid WHERE api_fts MATCH ?
JoinMatch(db, phrases) ==
    {p \in db.fts \X db.records :
        p[1].rowid = p[2].rowid /\ Matches(p[1], phrases)}

WithRank(row, rank) ==
    [fqn |-> row.fqn, namespace |-> row.namespace, class_name |-> row.class_name,
     member_name |-> row.member_name, member_type |-> row.member_type,
     summary |-> row.summary, params_json |-> row.params_json,
     returns_text |-> row.returns_text, deprecated |-> row.deprecated,
     deprecation_hint |-> row.deprecation_hint, rank |-> rank]

\* A plausible slip: the member_type filter applied to the n best rows, after
\* the cut.
search_cut_then_filter(db, q, n, member_type) ==
    LET clean == escape_fts(q)
    IN  IF Strip(clean) = <<>> THEN {<<>>}
        ELSE LET phrases == MatchPhrases(clean)
                 hits == JoinMatch(db, phrases)
                 ranked == {WithRank(p[2], Ranking(db.fts, p[1], p[2], phrases)) :
                               p \in hits}
                 byRank == {p \in ranked \X ranked : p[1].rank < p[2].rank}
             IN  MatchOutcome(clean,
                     {SelectSeq(Limit(sq, n),
                                LAMBDA r : member_type # NoFilter
                                              => r.member_type = member_type) :
                         sq \in SortedSeqs(ranked, byRank)})

\* search(conn, query, n, member_type): the result lists it may return.
search(db, q, n, member_type) ==
    LET clean == escape_fts(q)
    IN  IF Strip(clean) = <<>> THEN {<<>>}
        ELSE LET phrases == MatchPhrases(clean)
                 hits == {p \in JoinMatch(db, phrases) :
                             member_type # NoFilter => p[2].member_type = member_type}
                 ranked == {WithRank(p[2], Ranking(db.fts, p[1], p[2], phrases)) :
                               p \in hits}
                 byRank == {p \in ranked \X ranked : p[1].rank < p[2].rank}
             IN  MatchOutcome(clean,
                     {Limit(sq, n) : sq \in SortedSeqs(ranked, byRank)})

----------------------------------------------------------------------------
(* The other queries of db.py. *)

\* ORDER BY member_type, member_name
ByTypeThenName(S) ==
    {p \in S \X S :
        \/ StrLess(p[1].member_type, p[2].member_type)
        \/ /\ p[1].member_type = p[2].member_type
           /\ StrLess(p[1].member_name, p[2].member_name)}

\* A plausible slip: the statement without its ORDER BY.
get_class_members_unordered(db, class_name) ==
    LET hit == {RowDict(x) : x \in {y \in db.records : y.class_name = class_name}}
    IN  SortedSeqs(hit, {})

\* get_class_members(conn, class_name): the lists it may return.
get_class_members(db, class_name) ==
    LET hit == {RowDict(x) : x \in {y \in db.records : y.class_name = class_name}}
    IN  SortedSeqs(hit, ByTypeThenName(hit))

\* SELECT DISTINCT namespace, class_name, member_type, fqn
\* WHERE class_name = ? AND member_type = 'type'
ClassTypeRows(db, name) ==
    {[namespace |-> x.namespace, class_name |-> x.class_name,
      member_type |-> x.member_type, fqn |-> x.fqn] :
        x \in {y \in db.records : y.class_name = name /\ y.member_type = sType}}

\* SELECT DISTINCT namespace, class_name, member_name, member_type, fqn
\* WHERE member_name = ?
MemberNameRows(db, name) ==
    {[namespace |-> x.namespace, class_name |-> x.class_name,
      member_name |-> x.member_name, member_type |-> x.member_type,
      fqn |-> x.fqn] :
        x \in {y \in db.records : y.member_name = name}}

\* A plausible slip: the member-name rows returned along with the type rows.
resolve_namespace_merged(db, name) ==
    LET both == ClassTypeRows(db, name) \cup MemberNameRows(db, name)
    IN  SortedSeqs(both,
            {p \in both \X both : StrLess(p[1].namespace, p[2].namespace)})

\* resolve_namespace(conn, name): the lists it may return.
resolve_namespace(db, name) ==
    LET types == ClassTypeRows(db, name)
        members == MemberNameRows(db, name)
    IN  IF types # {}
        THEN SortedSeqs(types,
                 {p \in types \X types : StrLess(p[1].namespace, p[2].namespace)})
        ELSE SortedSeqs(members,
                 {p \in members \X members :
                     \/ StrLess(p[1].namespace, p[2].namespace)
                     \/ /\ p[1].namespace = p[2].namespace
                        /\ StrLess(p[1].class_name, p[2].class_name)})

\* WHERE deprecated = 1 AND (class_name = ? OR member_name = ? OR fqn = ?)
DeprecatedExact(db, name) ==
    {RowDict(x) : x \in {y \in db.records :
        /\ y.deprecated = 1
        /\ (y.class_name = name \/ y.member_name = name \/ y.fqn = name)}}

\* search_deprecated(conn, name, n): the lists it may return.
search_deprecated(db, name, n) ==
    LET exact == DeprecatedExact(db, name)
        clean == escape_fts(name)
    IN  IF exact # {}
        THEN {Limit(sq, n) : sq \in SortedSeqs(exact,
                 {p \in exact \X exact : StrLess(p[1].fqn, p[2].fqn)})}
        ELSE IF Strip(clean) = <<>> THEN {<<>>}
        ELSE LET phrases == MatchPhrases(clean)
                 hits == {p \in JoinMatch(db, phrases) : p[2].deprecated = 1}
                 ranked == {WithRank(p[2], bm25(db.fts, p[1], phrases, PlainWeights)) :
                               p \in hits}
                 byRank == {p \in ranked \X ranked : p[1].rank < p[2].rank}
             IN  MatchOutcome(clean,
                     {Limit(sq, n) : sq \in SortedSeqs(ranked, byRank)})

----------------------------------------------------------------------------
(* The tools of server.py.  A tool's answer is modelled by the stages it    *)
(* evaluated, the kind of message it returned and the records it shows.     *)

Answer(op, arg, stages, kind, rows) ==
    [op |-> op, arg |-> arg, stages |-> stages, kind |-> kind, rows |-> rows]

\* An exception of a query is not caught by the tool: the call fails.
Raised(rows) == rows = <<SqlError>>

Failure(op, arg, stages) == Answer(op, arg, stages, "error", <<>>)

\* n_results = min(max(n_results, 1), 20)
Clamp(n) ==
    LET lo == IF n > 1 THEN n ELSE 1 IN IF lo < 20 THEN lo ELSE 20

\* search_unity_api(query, n_results, member_type)
search_unity_api(db, q, n_results, member_type) ==
    {IF Raised(results) THEN Failure("search_unity_api", q, <<"fts">>)
     ELSE IF results = <<>>
     THEN Answer("search_unity_api", q, <<"fts">>, "no_results", <<>>)
     ELSE Answer("search_unity_api", q, <<"fts">>, "found", results) :
        results \in search(db, q, Clamp(n_results), member_type)}

\* SELECT * FROM api_records WHERE fqn LIKE ? ORDER BY fqn, with fqn + "%"
PrefixRows(db, fqn) ==
    LET hit == {RowDict(x) : x \in {y \in db.records : Like(y.fqn, fqn \o <<"%">>)}}
        sorted == SortedSeqs(hit, {p \in hit \X hit : StrLess(p[1].fqn, p[2].fqn)})
    IN  CHOOSE sq \in sorted : TRUE

\* A plausible slip: the prefix match tried before the exact lookup.
get_method_signature_prefix_first(db, fqn) ==
    LET record == get_by_fqn(db, fqn)
        rows == PrefixRows(db, fqn)
    IN  IF rows # <<>>
        THEN {Answer("get_method_signature", fqn, <<"prefix">>, "overloads", rows)}
        ELSE IF record # <<>>
        THEN {Answer("get_method_signature", fqn, <<"prefix", "exact">>,
                     "record", record)}
        ELSE {IF Raised(results)
              THEN Failure("get_method_signature", fqn, <<"prefix", "exact", "fts">>)
              ELSE IF results # <<>>
              THEN Answer("get_method_signature", fqn, <<"prefix", "exact", "fts">>,
                          "did_you_mean", results)
              ELSE Answer("get_method_signature", fqn, <<"prefix", "exact", "fts">>,
                          "no_results", <<>>) :
                 results \in search(db, fqn, 5, NoFilter)}

\* get_method_signature(fqn)
get_method_signature(db, fqn) ==
    LET record == get_by_fqn(db, fqn)
        rows == PrefixRows(db, fqn)
    IN  IF record # <<>>
        THEN {Answer("get_method_signature", fqn, <<"exact">>, "record", record)}
        ELSE IF rows # <<>>
        THEN {Answer("get_method_signature", fqn, <<"exact", "prefix">>,
                     "overloads", rows)}
        ELSE {IF Raised(results)
              THEN Failure("get_method_signature", fqn, <<"exact", "prefix", "fts">>)
              ELSE IF results # <<>>
              THEN Answer("get_method_signature", fqn, <<"exact", "prefix", "fts">>,
                          "did_you_mean", results)
              ELSE Answer("get_method_signature", fqn, <<"exact", "prefix", "fts">>,
                          "no_results", <<>>) :
                 results \in search(db, fqn, 5, NoFilter)}

\* A plausible slip: "no match" reported without the free-text fallback.
get_namespace_no_fallback(db, name) ==
    LET inner == IF ClassTypeRows(db, name) # {} THEN <<"class_type">>
                 ELSE <<"class_type", "member_name">>
    IN  {IF matches = <<>>
         THEN Answer("get_namespace", name, inner, "no_namespace", <<>>)
         ELSE IF Len(matches) = 1
         THEN Answer("get_namespace", name, inner, "single", matches)
         ELSE Answer("get_namespace", name, inner, "multiple", matches) :
            matches \in resolve_namespace(db, name)}

\* get_namespace(name)
get_namespace(db, name) ==
    LET inner == IF ClassTypeRows(db, name) # {} THEN <<"class_type">>
                 ELSE <<"class_type", "member_name">>
    IN  UNION {
          IF matches = <<>>
          THEN {IF Raised(results)
                THEN Failure("get_namespace", name, inner \o <<"fts">>)
                ELSE IF results # <<>>
                THEN Answer("get_namespace", name, inner \o <<"fts">>,
                            "similar", results)
                ELSE Answer("get_namespace", name, inner \o <<"fts">>,
                            "no_namespace", <<>>) :
                   results \in search(db, name, 5, sType)}
          ELSE IF Len(matches) = 1
          THEN {Answer("get_namespace", name, inner, "single", matches)}
          ELSE {Answer("get_namespace", name, inner, "multiple", matches)} :
             matches \in resolve_namespace(db, name)}

\* class_name.rsplit(".", 1)[-1]
RECURSIVE LastSegment(_)
LastSegment(s) ==
    IF \E i \in DOMAIN s : s[i] = "."
    THEN LastSegment(Tail(s))
    ELSE s

\* The reference card get_class_reference prints for the rows of a class: the
\* header taken from the first row of member_type type, or the namespace of
\* the first row when there is none; the groups of the other rows in the
\* order method, property, field, event; the total over all groups.
ReferenceCard(short_name, members) ==
    LET types == SelectSeq(members, LAMBDA m : m.member_type = sType)
        has_type == types # <<>>
        others == SelectSeq(members, LAMBDA m : m.member_type # sType)
        group(mtype) ==
            [member_type |-> mtype,
             members |-> SelectSeq(others, LAMBDA m : m.member_type = mtype)]
        shown == << group(sMethod), group(<<"p", "r", "o", "p", "e", "r", "t", "y">>),
                    group(<<"f", "i", "e", "l", "d">>),
                    group(<<"e", "v", "e", "n", "t">>) >>
    IN  [class |-> short_name,
         has_type |-> has_type,
         namespace |-> IF has_type THEN types[1].namespace ELSE members[1].namespace,
         summary |-> IF has_type THEN types[1].summary ELSE <<>>,
         deprecated |-> has_type /\ types[1].deprecated = 1,
         hint |-> IF has_type /\ types[1].deprecated = 1
                  THEN types[1].deprecation_hint ELSE <<>>,
         groups |-> SelectSeq(shown, LAMBDA g : g.members # <<>>),
         total |-> Len(others)]

\* get_class_reference(class_name): the answer shows the reference card.
get_class_reference(db, class_name) ==
    LET short_name == LastSegment(class_name)
    IN  UNION {
          IF members = <<>>
          THEN {IF Raised(results)
                THEN Failure("get_class_reference", class_name,
                             <<"class_members", "fts">>)
                ELSE IF results # <<>>
                THEN Answer("get_class_reference", class_name,
                            <<"class_members", "fts">>, "did_you_mean", results)
                ELSE Answer("get_class_reference", class_name,
                            <<"class_members", "fts">>, "no_class", <<>>) :
                   results \in search(db, class_name, 5, sType)}
          ELSE {Answer("get_class_reference", class_name, <<"class_members">>,
                       "reference", <<ReferenceCard(short_name, members)>>)} :
             members \in get_class_members(db, short_name)}

\* _format_deprecation(r): the lines of one warning; the replacement line
\* names the hint, or is the generic one.
GenericReplacement == <<"Check Unity 6 documentation for the recommended alternative">>

format_deprecation(r) ==
    [fqn |-> r.fqn, namespace |-> r.namespace, summary |-> r.summary,
     replacement |-> IF r.deprecation_hint # <<>>
                     THEN <<"Use", r.deprecation_hint, "instead">>
                     ELSE GenericReplacement]

\* get_deprecation_warnings(name)
get_deprecation_warnings(db, name) ==
    LET record == get_by_fqn(db, name)
        inner == IF DeprecatedExact(db, name) # {} THEN <<"deprecated_exact">>
                 ELSE <<"deprecated_exact", "deprecated_fts">>
        op == "get_deprecation_warnings"
    IN  IF record # <<>>
        THEN {IF record[1].deprecated = 1
              THEN Answer(op, name, <<"exact">>, "deprecated",
                          <<format_deprecation(record[1])>>)
              ELSE Answer(op, name, <<"exact">>, "not_deprecated", record)}
        ELSE UNION {
               IF Raised(deprecated)
               THEN {Failure(op, name, <<"exact">> \o inner)}
               ELSE IF deprecated # <<>>
               THEN {Answer(op, name, <<"exact">> \o inner, "deprecated_list",
                            [i \in DOMAIN deprecated |->
                                format_deprecation(deprecated[i])])}
               ELSE {IF Raised(results)
                     THEN Failure(op, name, <<"exact">> \o inner \o <<"fts">>)
                     ELSE IF results = <<>>
                     THEN Answer(op, name, <<"exact">> \o inner \o <<"fts">>,
                                 "no_member", <<>>)
                     ELSE LET non_dep == SelectSeq(results,
                                             LAMBDA r : r.deprecated = 0)
                          IN  IF non_dep # <<>>
                              THEN Answer(op, name, <<"exact">> \o inner \o <<"fts">>,
                                          "not_deprecated_matches", non_dep)
                              ELSE Answer(op, name, <<"exact">> \o inner \o <<"fts">>,
                                          "all_deprecated",
                                          [i \in DOMAIN results |->
                                              format_deprecation(results[i])]) :
                        results \in search(db, name, 3, NoFilter)} :
                  deprecated \in search_deprecated(db, name, 10)}

----------------------------------------------------------------------------
(* The store used through its API by one caller (specification Spec). *)

NoResult == [op |-> "none", arg |-> <<>>, kind |-> "none", rows |-> <<>>]

\* The scan at the first file, before the first line of it: i = 0,
\* current_namespace = "", class_stack = [], records = [].
ScanAt(file) ==
    [file |-> file, i |-> 1, current_namespace |-> <<>>, class_stack |-> <<>>,
     records |-> <<>>]

NoScan == ScanAt(1)

\* No Unity install described: nothing in the environment, no editor found.
NoInstall == [version |-> "6", env |-> <<>>, roots |-> <<>>]

\* No snapshot file anywhere: neither cached, nor temporary, nor bundled.
NoFs == [cache |-> <<>>, tmp |-> <<>>, bundled |-> FALSE, inodes |-> <<>>]

Init ==
    /\ tables = {}
    /\ api_records = {}
    /\ api_fts = {}
    /\ pc = "idle"
    /\ all_records = <<>>
    /\ prior = NoDb
    /\ last_batch = <<>>
    /\ since_clear = <<>>
    /\ query = <<>>
    /\ files = <<>>
    /\ scan = NoScan
    /\ install = NoInstall
    /\ fs = NoFs
    /\ procs = <<>>
    /\ result = NoResult

\* The fqns looked up: those of the corpus and one that no record has.
sAbsent == <<"Z", "z">>
Fqns == {r.fqn : r \in CorpusSet} \cup {sAbsent}

\* db.clear_all(conn)
ClearAll ==
    /\ pc = "idle"
    /\ SetDb(clear_all(Cur))
    /\ since_clear' = <<>>
    /\ last_batch' = <<>>
    /\ result' = NoResult
    /\ UNCHANGED <<pc, all_records, prior, query, files, install, fs, procs, scan>>

\* db.insert_records(conn, records)
InsertRecords(records) ==
    /\ pc = "idle"
    /\ tRecords \in tables
    /\ Len(since_clear) + Len(records) =< MaxRows
    /\ SetDb(insert_records(Cur, records))
    /\ since_clear' = since_clear \o records
    /\ last_batch' = records
    /\ result' = NoResult
    /\ UNCHANGED <<pc, all_records, prior, query, files, install, fs, procs, scan>>

\* db.get_by_fqn(conn, fqn)
GetByFqn(fqn) ==
    /\ pc = "idle"
    /\ tRecords \in tables
    /\ result' = [op |-> "get_by_fqn", arg |-> fqn, kind |-> "ok",
                  rows |-> get_by_fqn(Cur, fqn)]
    /\ UNCHANGED <<tables, api_records, api_fts, pc, all_records, prior,
                   last_batch, since_clear, query, files, install, fs, procs, scan>>

Next ==
    \/ ClearAll
    \/ \E records \in Lists(MaxBatch) : InsertRecords(records)
    \/ \E fqn \in Fqns : GetByFqn(fqn)

Spec == Init /\ [][Next]_vars

----------------------------------------------------------------------------
(* The serving process: tools called on a store that ingestion runs rebuild *)
(* (specification SpecTools).                                               *)

RECURSIVE Pick(_)
Pick(I) ==
    IF I = {} THEN <<>>
    ELSE LET m == CHOOSE i \in I : \A j \in I : i =< j
         IN  <<ToolCorpus[m]>> \o Pick(I \ {m})

\* The record lists of the ingestion runs: the records of the corpus that a
\* run finds, in the order of the corpus.
IngestLists ==
    {Pick(I) : I \in {J \in SUBSET DOMAIN ToolCorpus : Cardinality(J) =< MaxIngest}}

sPercent == <<"%">>
sSo == <<"s", "o">>

\* The strings given to the tools.
ToolQueries ==
    { sGame \o Dot \o sRay,
      sGame \o Dot \o sRay \o Dot \o sHit,
      <<"g", "a", "m", "e", ".", "r", "a", "y", ".", "h", "i", "t">>,
      sGame \o <<"_">> \o sRay,
      sUnityEngine \o Dot \o sUI \o Dot \o sRay,
      sRay, sHit, sCast, sSo, sAbsent, sPercent, <<>>, <<"-", ".">> }

WithOpts(res, n, member_type) ==
    [op |-> res.op, arg |-> res.arg, stages |-> res.stages, kind |-> res.kind,
     rows |-> res.rows, n |-> n, member_type |-> member_type]

\* The server handles one tool call at a time: a call is taken when the
\* answer to the previous one has been sent.
Serving ==
    /\ pc = "idle"
    /\ result = NoResult
    /\ tRecords \in tables
    /\ tFts \in tables

Returns(res) ==
    /\ result' = res
    /\ UNCHANGED <<tables, api_records, api_fts, pc, all_records, prior,
                   last_batch, since_clear, query, files, install, fs, procs, scan>>

\* ingest.main, phase 3, seen from a process that queries only between runs.
Ingest(records) ==
    /\ pc = "idle"
    /\ result = NoResult
    /\ SetDb(insert_records(clear_all(Cur), records))
    /\ since_clear' = records
    /\ last_batch' = records
    /\ result' = NoResult
    /\ UNCHANGED <<pc, all_records, prior, query, files, install, fs, procs, scan>>

Search(q, n, member_type) ==
    /\ Serving
    /\ \E rows \in search(Cur, q, n, member_type) :
          Returns(WithOpts(IF Raised(rows) THEN Failure("search", q, <<"fts">>)
                           ELSE Answer("search", q, <<"fts">>, "ok", rows),
                           n, member_type))

SearchUnityApi(q, n_results, member_type) ==
    /\ Serving
    /\ \E res \in search_unity_api(Cur, q, n_results, member_type) :
          Returns(WithOpts(res, n_results, member_type))

GetMethodSignature(fqn) ==
    /\ Serving
    /\ \E res \in get_method_signature(Cur, fqn) : Returns(WithOpts(res, 5, NoFilter))

GetNamespace(name) ==
    /\ Serving
    /\ \E res \in get_namespace(Cur, name) : Returns(WithOpts(res, 5, sType))

GetClassReference(class_name) ==
    /\ Serving
    /\ \E res \in get_class_reference(Cur, class_name) :
          Returns(WithOpts(res, 5, sType))

GetDeprecationWarnings(name) ==
    /\ Serving
    /\ \E res \in get_deprecation_warnings(Cur, name) :
          Returns(WithOpts(res, 3, NoFilter))

\* The answer is sent to the client.
Respond ==
    /\ result # NoResult
    /\ result' = NoResult
    /\ UNCHANGED <<tables, api_records, api_fts, pc, all_records, prior,
                   last_batch, since_clear, query, files, install, fs, procs, scan>>

NextTools ==
    \/ \E records \in IngestLists : Ingest(records)
    \/ \E q \in ToolQueries, n \in {1, 10}, mt \in {NoFilter, sType, sMethod} :
          Search(q, n, mt)
    \/ \E q \in ToolQueries, n \in {0, 5, 25}, mt \in {NoFilter, sType} :
          SearchUnityApi(q, n, mt)
    \/ \E q \in ToolQueries : GetMethodSignature(q)
    \/ \E q \in ToolQueries : GetNamespace(q)
    \/ \E q \in ToolQueries : GetClassReference(q)
    \/ \E q \in ToolQueries : GetDeprecationWarnings(q)
    \/ Respond

SpecTools == Init /\ [][NextTools]_vars

----------------------------------------------------------------------------
(* Claims about the store. *)

\* The last record of list with the given fqn.
LastWithFqn(list, fqn) ==
    list[CHOOSE i \in DOMAIN list :
            /\ list[i].fqn = fqn
            /\ \A j \in DOMAIN list : list[j].fqn = fqn => j =< i]

HasFqn(list, fqn) == \E i \in DOMAIN list : list[i].fqn = fqn

\* C1: after any sequence of clear_all and insert_records calls the index
\* api_fts holds exactly one entry per row of api_records, with that row's
\* rowid and the content of its fqn, class_name, member_name and summary, and
\* no entry for a row that no longer exists.
C1_FtsMirrorsRecords ==
    api_fts = {FtsEntry(x) : x \in api_records}

\* C3: after clear_all followed by insert_records calls, api_records holds
\* exactly one row per distinct fqn of the inserted list, with the values of
\* the last record of the list that has this fqn, and no other row.
C3_RebuildLastWins ==
    tRecords \in tables =>
        /\ \A x \in api_records : HasFqn(since_clear, x.fqn)
        /\ \A i \in DOMAIN since_clear :
              LET mine == {x \in api_records : x.fqn = since_clear[i].fqn}
              IN  /\ Cardinality(mine) = 1
                  /\ \A x \in mine :
                        RowDict(x) =
                        RowDict(RowOf(LastWithFqn(since_clear, x.fqn), 0))

\* A rebuild whose list holds the same fqn twice with different content.
C3_Witness ==
    /\ since_clear = last_batch
    /\ \E i, j \in DOMAIN since_clear :
          /\ i < j
          /\ since_clear[i].fqn = since_clear[j].fqn
          /\ since_clear[i] # since_clear[j]
    /\ Cardinality(api_records) < Len(since_clear)

\* C4: get_by_fqn(r.fqn) after insert_records of r returns r's fqn,
\* namespace, class_name, member_name, member_type, summary, returns_text and
\* deprecation_hint unchanged, params that decode to r's list of
\* name/description pairs in order, and r's deprecated flag.
C4_RoundTrip ==
    (result.op = "get_by_fqn" /\ HasFqn(last_batch, result.arg)) =>
        LET r == LastWithFqn(last_batch, result.arg)
        IN  /\ Len(result.rows) = 1
            /\ LET d == result.rows[1]
               IN  /\ d.fqn = r.fqn
                   /\ d.namespace = r.namespace
                   /\ d.class_name = r.class_name
                   /\ d.member_name = r.member_name
                   /\ d.member_type = r.member_type
                   /\ d.summary = r.summary
                   /\ json_loads(d.params_json) = r.params_json
                   /\ d.returns_text = r.returns_text
                   /\ d.deprecated \in {0, 1}
                   /\ (d.deprecated = 1) = r.deprecated
                   /\ d.deprecation_hint = r.deprecation_hint

\* A record with parameters that need escaping was inserted and fetched.
C4_Witness ==
    /\ result.op = "get_by_fqn"
    /\ result.arg = recHitA.fqn
    /\ HasFqn(last_batch, result.arg)
    /\ Len(result.rows) = 1

----------------------------------------------------------------------------
(* Claims about the retrieval tools. *)

\* The row of api_records with the given fqn, and its index entry.
RowWithFqn(fqn) == CHOOSE x \in api_records : x.fqn = fqn

EntryOfRow(x) == CHOOSE e \in api_fts : e.rowid = x.rowid

\* The phrases db.search matches for the argument of the last call.
ArgPhrases == MatchPhrases(escape_fts(result.arg))

\* C5: get_method_signature evaluates exact lookup, prefix match and
\* free-text search in this order, the prefix stage only when the exact
\* lookup found nothing, the free-text stage only when the prefix stage found
\* nothing, and a record with exactly the given fqn is the answer, alone.
C5_StageOrder ==
    result.op = "get_method_signature" =>
        LET exact == {x \in api_records : x.fqn = result.arg}
            prefixFound == PrefixRows(Cur, result.arg) # <<>>
        IN  /\ result.stages \in {<<"exact">>, <<"exact", "prefix">>,
                                  <<"exact", "prefix", "fts">>}
            /\ (Len(result.stages) >= 2) = (exact = {})
            /\ (Len(result.stages) = 3) = (exact = {} /\ ~prefixFound)
            /\ exact # {} =>
                  /\ result.kind = "record"
                  /\ result.rows = <<RowDict(CHOOSE x \in exact : TRUE)>>

\* The exact record was the answer although another record has the query
\* as a prefix of its fqn.
C5_Witness ==
    /\ result.op = "get_method_signature"
    /\ result.kind = "record"
    /\ \E x \in api_records : x.fqn # result.arg /\ StartsWith(x.fqn, result.arg)

\* C6: when no record has the fqn q, the prefix stage of
\* get_method_signature returns exactly the records whose fqn starts with q
\* as a literal, case-sensitive string; and a q that no record matches
\* exactly, by prefix or by a search term gets the "No results found" answer.
C6_PrefixIsLiteral ==
    (result.op = "get_method_signature" /\ get_by_fqn(Cur, result.arg) = <<>>) =>
        LET literal == {RowDict(x) : x \in {y \in api_records :
                                                StartsWith(y.fqn, result.arg)}}
            termHit == \E e \in api_fts : \E i \in DOMAIN ArgPhrases :
                          /\ EntryHas(e, ArgPhrases[i])
                          /\ \E x \in api_records : x.rowid = e.rowid
        IN  /\ literal # {} => result.kind = "overloads"
            /\ result.kind = "overloads" => Range(result.rows) = literal
            /\ (literal = {} /\ ~termHit) => result.kind = "no_results"

\* The stages of each tool's cascade, in the order of the code.
Cascade(op) ==
    CASE op = "search_unity_api" -> <<"fts">>
      [] op = "get_method_signature" -> <<"exact", "prefix", "fts">>
      [] op = "get_namespace" -> <<"class_type", "member_name", "fts">>
      [] op = "get_class_reference" -> <<"class_members", "fts">>
      [] op = "get_deprecation_warnings" ->
            <<"exact", "deprecated_exact", "deprecated_fts", "fts">>

ToolOps ==
    {"search_unity_api", "get_method_signature", "get_namespace",
     "get_class_reference", "get_deprecation_warnings"}

NoMatchKinds == {"no_results", "no_namespace", "no_class", "no_member"}

\* Whether a stage of the last call's cascade finds nothing in the store.
StageEmpty(stage) ==
    LET op == result.op
        arg == result.arg
        mt == IF op = "search_unity_api" THEN result.member_type
              ELSE IF op \in {"get_namespace", "get_class_reference"} THEN sType
              ELSE NoFilter
    IN  CASE stage = "fts" -> search(Cur, arg, 1, mt) = {<<>>}
          [] stage = "exact" -> \A x \in api_records : x.fqn # arg
          [] stage = "prefix" ->
                \A x \in api_records : ~Like(x.fqn, arg \o <<"%">>)
          [] stage = "class_type" ->
                \A x \in api_records : ~(x.class_name = arg /\ x.member_type = sType)
          [] stage = "member_name" -> \A x \in api_records : x.member_name # arg
          [] stage = "class_members" ->
                \A x \in api_records : x.class_name # LastSegment(arg)
          [] stage = "deprecated_exact" -> DeprecatedExact(Cur, arg) = {}
          [] stage = "deprecated_fts" -> search_deprecated(Cur, arg, 1) = {<<>>}

ClaimWeights ==
    [fqn |-> 2, class_name |-> 10, member_name |-> 20, summary |-> 2]

\* The namespace bonus of C9: -2 for UnityEngine and UnityEditor, -1 for a
\* direct sub-namespace of one of them.
ClaimCoreBonus(ns) ==
    IF ns \in {sUnityEngine, sUnityEditor} THEN 0 - 2000000
    ELSE IF \E root \in {sUnityEngine, sUnityEditor} :
               /\ StartsWith(ns, root \o Dot)
               /\ Len(ns) > Len(root) + 1
               /\ Count(SubSeq(ns, Len(root) + 2, Len(ns)), ".") = 0
         THEN 0 - 1000000
    ELSE 0

\* C9: the score db.search orders by is the lexical relevance with weights
\* member_name 10, class_name 5, fqn 1 and summary 1, plus 0.5 per dot of the
\* namespace, plus the namespace bonus, plus -1.0 for a record of type type.
C9_ScoreAsSpecified ==
    (result.op = "search" /\ result.kind = "ok") =>
        \A i \in DOMAIN result.rows :
            LET x == RowWithFqn(result.rows[i].fqn)
            IN  result.rows[i].rank =
                    bm25(api_fts, EntryOfRow(x), ArgPhrases, ClaimWeights)
                    + Count(x.namespace, ".") * 500000
                    + ClaimCoreBonus(x.namespace)
                    + (IF x.member_type = sType THEN 0 - 1000000 ELSE 0)

\* The lexical relevance of a row for the argument of the last call.
Relevance(x) == bm25(api_fts, EntryOfRow(x), ArgPhrases, SearchWeights)

\* The rows that match the last search call and pass its member_type filter.
Matching ==
    {x \in api_records :
        /\ \E e \in api_fts : e.rowid = x.rowid /\ Matches(e, ArgPhrases)
        /\ result.member_type # NoFilter => x.member_type = result.member_type}

\* C10 as stated: of two matching records with the same member_type and the
\* same lexical relevance, db.search returns the one with fewer dots in its
\* namespace before the other.
C10_ShallowFirst ==
    (result.op = "search" /\ result.kind = "ok") =>
        \A i, j \in DOMAIN result.rows :
            LET a == RowWithFqn(result.rows[i].fqn)
                b == RowWithFqn(result.rows[j].fqn)
            IN  (/\ a.member_type = b.member_type
                 /\ Relevance(a) = Relevance(b)
                 /\ Count(a.namespace, ".") < Count(b.namespace, "."))
                => i < j

\* C10 as amended: of two matching records with the same member_type, the
\* same lexical relevance and the same namespace bonus, db.search returns
\* the one with fewer dots in its namespace before the other, and never the
\* deeper one without the shallower one.
C10_ShallowFirstSameBonus ==
    (result.op = "search" /\ result.kind = "ok") =>
        \A j \in DOMAIN result.rows : \A a \in Matching :
            LET b == RowWithFqn(result.rows[j].fqn)
            IN  (/\ a.member_type = b.member_type
                 /\ Relevance(a) = Relevance(b)
                 /\ CoreBonus(a.namespace) = CoreBonus(b.namespace)
                 /\ Count(a.namespace, ".") < Count(b.namespace, "."))
                => \E i \in 1 .. (j - 1) : result.rows[i].fqn = a.fqn

\* Game.Ray and Game.Fx.Ray, equal but for the depth, returned in this order.
C10_Witness ==
    /\ result.op = "search"
    /\ result.kind = "ok"
    /\ \E i, j \in DOMAIN result.rows :
          /\ i < j
          /\ result.rows[i].fqn = recRay.fqn
          /\ result.rows[j].fqn = recFxRay.fqn
          /\ Relevance(RowWithFqn(recRay.fqn)) = Relevance(RowWithFqn(recFxRay.fqn))

----------------------------------------------------------------------------
(* _escape_fts and the free-text queries on arbitrary query strings         *)
(* (specification SpecEscape).                                              *)

\* The characters of the queries: those _escape_fts replaces or deletes, the
\* space, and two letters that are terms of the stored records.
EscapeChars == {".", "\"", "*", "(", ")", "-", " ", "a", "b"}

QueryStrings == UNION {[1 .. k -> EscapeChars] : k \in 0 .. MaxQueryLen}

\* The store the queries run on, as a rebuild leaves it.
EscapeRecords == <<recHitA, recHitB>>
EscapeStore == insert_records(clear_all(NoDb), EscapeRecords)

InitEscape ==
    /\ tables = EscapeStore.tables
    /\ api_records = EscapeStore.records
    /\ api_fts = EscapeStore.fts
    /\ pc = "idle"
    /\ all_records = <<>>
    /\ prior = NoDb
    /\ last_batch = EscapeRecords
    /\ since_clear = EscapeRecords
    /\ query \in QueryStrings
    /\ files = <<>>
    /\ scan = NoScan
    /\ install = NoInstall
    /\ fs = NoFs
    /\ procs = <<>>
    /\ result = NoResult

\* _escape_fts(query)
EscapeFts ==
    /\ Serving
    /\ Returns(Answer("_escape_fts", query, <<>>, "ok", escape_fts(query)))

\* db.search(conn, query)
DbSearch == Search(query, 10, NoFilter)

\* db.search_deprecated(conn, query)
DbSearchDeprecated ==
    /\ Serving
    /\ \E rows \in search_deprecated(Cur, query, 10) :
          Returns(IF Raised(rows) THEN Failure("search_deprecated", query, <<>>)
                  ELSE Answer("search_deprecated", query, <<>>, "ok", rows))

NextEscape ==
    \/ EscapeFts
    \/ DbSearch
    \/ DbSearchDeprecated
    \/ Respond

SpecEscape == InitEscape /\ [][NextEscape]_vars

\* The characters _escape_fts takes out of a query.
Stripped == {".", "\"", "*", "(", ")", "-"}

\* A query of which no term survives.
NoTerm(q) == \A i \in DOMAIN q : q[i] \in Stripped \cup {" "}

\* C8: the terms _escape_fts produces are each wrapped in double quotes and
\* contain none of . " * ( ) - ; and for a query of which no term survives,
\* db.search and the free-text fallback of db.search_deprecated return the
\* empty list and raise no error.
C8_TermsQuotedNoTermEmpty ==
    /\ result.op = "_escape_fts" =>
          LET terms == Split(result.rows)
          IN  \A i \in DOMAIN terms :
                  LET t == terms[i]
                  IN  /\ Len(t) >= 3
                      /\ t[1] = "\""
                      /\ t[Len(t)] = "\""
                      /\ \A k \in 2 .. (Len(t) - 1) : t[k] \notin Stripped
    /\ (result.op = "search" /\ NoTerm(result.arg)) =>
          (result.kind = "ok" /\ result.rows = <<>>)
    /\ (/\ result.op = "search_deprecated"
        /\ NoTerm(result.arg)
        /\ DeprecatedExact(Cur, result.arg) = {}) =>
          (result.kind = "ok" /\ result.rows = <<>>)

\* A query made of stripped characters only got the empty list from the
\* free-text fallback of search_deprecated, on a store with a deprecated
\* record.
C8_Witness ==
    /\ result.op = "search_deprecated"
    /\ result.arg # <<>>
    /\ NoTerm(result.arg)
    /\ \E i \in DOMAIN result.arg : result.arg[i] = "\""
    /\ \E x \in api_records : x.deprecated = 1
    /\ result.kind = "ok"
    /\ result.rows = <<>>

----------------------------------------------------------------------------
(* An ingestion run that rebuilds the store while another process queries  *)
(* it (specification SpecIngest).  clear_all runs its statements with       *)
(* executescript, which commits each of them; insert_records commits once.  *)

\* The record lists of the runs of this specification.
RunLists == {L \in IngestLists : Len(L) =< MaxBatch}

ReadOps ==
    {"get_by_fqn", "search", "get_class_members", "resolve_namespace",
     "search_deprecated"}

ReadArgs == {sGame \o Dot \o sRay, sRay, sHit}

\* conn.execute on a store: sqlite3.OperationalError (no such table) when a
\* table the statement names is missing.
Execute(db, needs, rows) ==
    IF needs \subseteq db.tables THEN rows ELSE {<<SqlError>>}

\* The outcomes of a retrieval query on a store as its file is.
ReaderQuery(db, op, arg) ==
    CASE op = "get_by_fqn" -> Execute(db, {tRecords}, {get_by_fqn(db, arg)})
      [] op = "get_class_members" ->
            Execute(db, {tRecords}, get_class_members(db, arg))
      [] op = "resolve_namespace" ->
            Execute(db, {tRecords}, resolve_namespace(db, arg))
      [] op = "search" ->
            IF Strip(escape_fts(arg)) = <<>> THEN {<<>>}
            ELSE Execute(db, {tRecords, tFts}, search(db, arg, 10, NoFilter))
      [] op = "search_deprecated" ->
            IF tRecords \notin db.tables THEN {<<SqlError>>}
            ELSE IF DeprecatedExact(db, arg) # {}
                    \/ Strip(escape_fts(arg)) = <<>>
            THEN search_deprecated(db, arg, 10)
            ELSE Execute(db, {tRecords, tFts}, search_deprecated(db, arg, 10))

\* ingest.main up to phase 3: the records are parsed, the connection opened.
StartIngest(records) ==
    /\ pc = "idle"
    /\ result = NoResult
    /\ all_records' = records
    /\ prior' = Cur
    /\ pc' = "drop_fts"
    /\ UNCHANGED <<tables, api_records, api_fts, last_batch, since_clear,
                   query, files, install, fs, procs, scan, result>>

Statement(at, db, then) ==
    /\ pc = at
    /\ SetDb(db)
    /\ pc' = then
    /\ UNCHANGED <<all_records, prior, last_batch, since_clear, query, files, install, fs, procs, scan, result>>

\* The statements of clear_all, each committed when it has run.
DropFtsStmt == Statement("drop_fts", DropFts(Cur), "drop_records")
DropRecordsStmt == Statement("drop_records", DropRecords(Cur), "create_records")
CreateRecordsStmt == Statement("create_records", CreateRecords(Cur), "create_fts")
CreateFtsStmt == Statement("create_fts", CreateFts(Cur), "create_ai")
CreateInsertTrigger == Statement("create_ai", CreateTrigger(Cur, trgInsert), "create_ad")
CreateDeleteTrigger == Statement("create_ad", CreateTrigger(Cur, trgDelete), "insert")

\* db.insert_records(conn, all_records), committed as a whole.
InsertAll ==
    /\ pc = "insert"
    /\ SetDb(insert_records(Cur, all_records))
    /\ pc' = "idle"
    /\ since_clear' = all_records
    /\ last_batch' = all_records
    /\ UNCHANGED <<all_records, prior, query, files, install, fs, procs, scan, result>>

\* A retrieval query of the serving process, on its own connection.
Read(op, arg) ==
    /\ result = NoResult
    /\ \E rows \in ReaderQuery(Cur, op, arg) :
          result' = IF Raised(rows) THEN Failure(op, arg, <<>>)
                    ELSE Answer(op, arg, <<>>, "ok", rows)
    /\ UNCHANGED <<tables, api_records, api_fts, pc, all_records, prior,
                   last_batch, since_clear, query, files, install, fs, procs, scan>>

NextIngest ==
    \/ \E records \in RunLists : StartIngest(records)
    \/ DropFtsStmt
    \/ DropRecordsStmt
    \/ CreateRecordsStmt
    \/ CreateFtsStmt
    \/ CreateInsertTrigger
    \/ CreateDeleteTrigger
    \/ InsertAll
    \/ \E op \in ReadOps, arg \in ReadArgs : Read(op, arg)
    \/ Respond

SpecIngest == Init /\ [][NextIngest]_vars

\* The answers a query has on a snapshot: a failure or the rows.
SnapshotAnswers(db, op, arg) ==
    {IF Raised(rows) THEN Failure(op, arg, <<>>)
     ELSE Answer(op, arg, <<>>, "ok", rows) : rows \in ReaderQuery(db, op, arg)}

\* C2: a retrieval query that runs while an ingestion run rebuilds a store
\* that held a complete snapshot answers as on the previous snapshot or as
\* on the new one, never with missing tables, an empty store or a part of
\* the new records.
C2_ReaderSeesOldOrNew ==
    (/\ pc # "idle"
     /\ result.op \in ReadOps
     /\ {tRecords, tFts} \subseteq prior.tables) =>
        result \in SnapshotAnswers(prior, result.op, result.arg)
                   \cup SnapshotAnswers(insert_records(clear_all(prior), all_records),
                                        result.op, result.arg)

----------------------------------------------------------------------------
(* Claims about the limits and the lookups of db.py and the tools. *)

\* The score of a stored row for the argument of the last call.
ScoreOf(x) == Ranking(api_fts, EntryOfRow(x), x, ArgPhrases)

Min(a, b) == IF a < b THEN a ELSE b

\* The rows are k best-scored rows of Matching, each once, none that does
\* not match.
BestOfMatching(rows, k) ==
    /\ Len(rows) = Min(k, Cardinality(Matching))
    /\ \A i \in DOMAIN rows : \E x \in Matching :
          /\ RowDict(x) = [f \in DOMAIN RowDict(x) |-> rows[i][f]]
          /\ rows[i].rank = ScoreOf(x)
    /\ \A i, j \in DOMAIN rows : i # j => rows[i].fqn # rows[j].fqn
    /\ \A i \in DOMAIN rows : \A x \in Matching :
          (\A j \in DOMAIN rows : rows[j].fqn # x.fqn) => ScoreOf(x) >= rows[i].rank

C12_TypesElseMembers ==
    (result.op = "get_namespace" /\ result.kind # "error") =>
        LET types == {x \in api_records :
                         x.member_type = sType /\ x.class_name = result.arg}
            members == {x \in api_records : x.member_name = result.arg}
            expected == IF types # {} THEN types ELSE members
            returned == IF result.kind \in {"single", "multiple"}
                        THEN result.rows ELSE <<>>
        IN  /\ Len(returned) = Cardinality(expected)
            /\ \A x \in expected : \E i \in DOMAIN returned :
                  /\ returned[i].fqn = x.fqn
                  /\ returned[i].namespace = x.namespace
                  /\ returned[i].class_name = x.class_name
                  /\ returned[i].member_type = x.member_type
            /\ \A i \in DOMAIN returned : \E x \in expected : returned[i].fqn = x.fqn

\* The type Ray was found in two namespaces and both were returned, and the
\* stored method named Ray was not.
C12_Witness ==
    /\ result.op = "get_namespace"
    /\ result.arg = sRay
    /\ result.kind = "multiple"
    /\ \E i, j \in DOMAIN result.rows :
          result.rows[i].namespace # result.rows[j].namespace
    /\ \E x \in api_records : x.member_name = sRay
    /\ \A i \in DOMAIN result.rows : result.rows[i].member_type = sType

\* The members a reference card lists, group after group.
RECURSIVE Listed(_)
Listed(groups) ==
    IF groups = <<>> THEN <<>> ELSE groups[1].members \o Listed(Tail(groups))

\* The card is that of the stored records whose class_name is cls.
CardOfClass(card, cls) ==
    LET rows == {x \in api_records : x.class_name = cls}
        listed == Listed(card.groups)
    IN  /\ {listed[i].fqn : i \in DOMAIN listed}
              = {x.fqn : x \in {y \in rows : y.member_type # sType}}
        /\ \A i, j \in DOMAIN listed : i # j => listed[i].fqn # listed[j].fqn
        /\ \A i \in DOMAIN listed : listed[i].class_name = cls
        /\ \A g \in DOMAIN card.groups :
              LET ms == card.groups[g].members
              IN  /\ \A i \in DOMAIN ms : ms[i].member_type = card.groups[g].member_type
                  /\ \A i, j \in DOMAIN ms :
                        i < j => ~StrLess(ms[j].member_name, ms[i].member_name)
        /\ \A g, h \in DOMAIN card.groups :
              g # h => card.groups[g].member_type # card.groups[h].member_type
        /\ card.total = Len(listed)
        /\ (\E t \in rows : t.member_type = sType) =>
              \E t \in rows :
                  /\ t.member_type = sType
                  /\ card.namespace = t.namespace
                  /\ card.summary = t.summary
                  /\ card.deprecated = (t.deprecated = 1)
                  /\ card.deprecated => card.hint = t.deprecation_hint

\* C13 as stated: the reference card of get_class_reference(class_name) is
\* that of the records whose class_name equals the name asked for: the
\* non-type records, each once, grouped by member_type and ordered by
\* member_name in the group, the total their number, the header that of a
\* type record when there is one.
C13_CardOfRequestedName ==
    (result.op = "get_class_reference" /\ result.kind = "reference") =>
        CardOfClass(result.rows[1], result.arg)

\* C13 as amended: the same, for the records whose class_name equals the
\* last dot-segment of the name asked for.
C13_CardOfLastSegment ==
    (result.op = "get_class_reference" /\ result.kind = "reference") =>
        CardOfClass(result.rows[1], LastSegment(result.arg))

\* A card with two groups, two member names in one of them, and a header
\* from a type record.
C13_Witness ==
    /\ result.op = "get_class_reference"
    /\ result.kind = "reference"
    /\ result.rows[1].has_type
    /\ Len(result.rows[1].groups) = 2
    /\ \E i, j \in DOMAIN result.rows[1].groups[1].members :
          result.rows[1].groups[1].members[i].member_name
              # result.rows[1].groups[1].members[j].member_name

\* C14: when a deprecated record has class_name, member_name or fqn equal to
\* the name, get_deprecation_warnings reports those deprecated records (at
\* most 10) and does not state that the name is not deprecated; the
\* free-text search among deprecated records runs only when there is no such
\* record; each deprecated record reported shows its hint or the generic
\* replacement line.
C14_DeprecatedExactReported ==
    (result.op = "get_deprecation_warnings" /\ result.kind # "error") =>
        LET dep == {x \in api_records :
                       /\ x.deprecated = 1
                       /\ (x.class_name = result.arg \/ x.member_name = result.arg
                              \/ x.fqn = result.arg)}
            warned == result.kind \in {"deprecated", "deprecated_list", "all_deprecated"}
        IN  /\ dep # {} =>
                  /\ result.kind \in {"deprecated", "deprecated_list"}
                  /\ Len(result.rows) = Min(10, Cardinality(dep))
                  /\ \A i \in DOMAIN result.rows :
                        \E x \in dep : result.rows[i].fqn = x.fqn
            /\ (\E i \in DOMAIN result.stages : result.stages[i] = "deprecated_fts")
                  => dep = {}
            /\ warned =>
                  \A i \in DOMAIN result.rows :
                      LET x == RowWithFqn(result.rows[i].fqn)
                      IN  /\ x.deprecated = 1
                          /\ result.rows[i].replacement =
                                IF x.deprecation_hint # <<>>
                                THEN <<"Use", x.deprecation_hint, "instead">>
                                ELSE GenericReplacement

----------------------------------------------------------------------------
(* xml_parser.py: the records of an XML doc file. *)

sProperty == <<"p", "r", "o", "p", "e", "r", "t", "y">>
sField == <<"f", "i", "e", "l", "d">>
sEvent == <<"e", "v", "e", "n", "t">>

\* _PREFIX_MAP, by the letter before the colon
PrefixMap == [T |-> sType, M |-> sMethod, P |-> sProperty, F |-> sField, E |-> sEvent]

\* str.split(sep) with a separator of one character; cur is the open piece.
RECURSIVE SplitOn(_, _, _)
SplitOn(s, sep, cur) ==
    IF s = <<>> THEN <<cur>>
    ELSE IF s[1] = sep THEN <<cur>> \o SplitOn(Tail(s), sep, <<>>)
    ELSE SplitOn(Tail(s), sep, Append(cur, s[1]))

\* A plausible slip: types split as members are.
split_fqn_as_member(fqn, member_type) ==
    LET parts == SplitOn(SplitOn(fqn, "(", <<>>)[1], ".", <<>>)
        n == Len(parts)
    IN  IF n >= 3
        THEN [namespace |-> Join(SubSeq(parts, 1, n - 2), Dot),
              class_name |-> parts[n - 1], member_name |-> parts[n]]
        ELSE IF n = 2
        THEN [namespace |-> <<>>, class_name |-> parts[1], member_name |-> parts[2]]
        ELSE [namespace |-> <<>>, class_name |-> <<>>, member_name |-> parts[1]]

\* _split_fqn(fqn, member_type)
split_fqn(fqn, member_type) ==
    LET base == SplitOn(fqn, "(", <<>>)[1]
        parts == SplitOn(base, ".", <<>>)
        n == Len(parts)
    IN  IF member_type = sType
        THEN (IF n >= 2
              THEN [namespace |-> Join(SubSeq(parts, 1, n - 1), Dot),
                    class_name |-> parts[n], member_name |-> <<>>]
              ELSE [namespace |-> <<>>, class_name |-> parts[1],
                    member_name |-> <<>>])
        ELSE IF n >= 3
        THEN [namespace |-> Join(SubSeq(parts, 1, n - 2), Dot),
              class_name |-> parts[n - 1], member_name |-> parts[n]]
        ELSE IF n = 2
        THEN [namespace |-> <<>>, class_name |-> parts[1], member_name |-> parts[2]]
        ELSE [namespace |-> <<>>, class_name |-> <<>>, member_name |-> parts[1]]

\* The regular expressions' \s and \w, on the characters of the model.
Spaces == {" ", "\n", "\t"}
IsSpace(c) == c \in Spaces
IsWordChar(c) == IsAlnum(c) \/ c = "_"

\* Whether the text holds exactly w at position p.
StartsAt(s, p, w) ==
    /\ p >= 1
    /\ p + Len(w) - 1 =< Len(s)
    /\ SubSeq(s, p, p + Len(w) - 1) = w

\* The least index from p on whose character is in (or is not in) a set;
\* 0 when there is none.
FirstIn(s, p, chars, inside) ==
    LET at == {k \in p .. Len(s) : (s[k] \in chars) = inside}
    IN  IF at = {} THEN 0 ELSE CHOOSE k \in at : \A j \in at : k =< j

\* The least position from p on where w starts; 0 when there is none.
Find(s, p, w) ==
    LET at == {k \in p .. Len(s) : StartsAt(s, k, w)}
    IN  IF at = {} THEN 0 ELSE CHOOSE k \in at : \A j \in at : k =< j

\* Whether the text holds w at position p, letter case ignored.
HasAt(s, p, w) ==
    /\ p >= 1
    /\ p + Len(w) - 1 =< Len(s)
    /\ \A k \in DOMAIN w : Lower(s[p + k - 1]) = w[k]

sUse == <<"u", "s", "e">>
sInstead == <<"i", "n", "s", "t", "e", "a", "d">>

\* _DEPRECATED_PATTERNS.search(summary):
\* \b(obsolete|deprecated)\b|use\s+\S+\s+instead, IGNORECASE
DeprecatedPattern(s) ==
    \/ \E w \in {<<"o", "b", "s", "o", "l", "e", "t", "e">>,
                 <<"d", "e", "p", "r", "e", "c", "a", "t", "e", "d">>} :
          \E p \in DOMAIN s :
              /\ HasAt(s, p, w)
              /\ p = 1 \/ ~IsWordChar(s[p - 1])
              /\ p + Len(w) > Len(s) \/ ~IsWordChar(s[p + Len(w)])
    \/ \E p \in DOMAIN s :
          LET q == FirstIn(s, p + 3, Spaces, FALSE)
              r == FirstIn(s, q, Spaces, TRUE)
              t == FirstIn(s, r, Spaces, FALSE)
          IN  /\ HasAt(s, p, sUse)
              /\ q > p + 3
              /\ r # 0
              /\ t # 0
              /\ HasAt(s, t, sInstead)

\* re.search(r"(?:use|Use)\s+(\S+?)[\s.]", summary) tried at position p: the
\* group in a tuple, or the empty tuple when there is no match at p.
HintAt(s, p) ==
    IF ~(p + 2 =< Len(s) /\ s[p] \in {"u", "U"} /\ s[p + 1] = "s" /\ s[p + 2] = "e")
    THEN <<>>
    ELSE LET q == FirstIn(s, p + 3, Spaces, FALSE)
             z == FirstIn(s, q + 1, Spaces \cup {"."}, TRUE)
         IN  IF q = 0 \/ q = p + 3 \/ z = 0 THEN <<>>
             ELSE <<SubSeq(s, q, z - 1)>>

\* The hint both parsers extract: the group of the leftmost match, else "".
extract_deprecation_hint(summary) ==
    LET found == {p \in DOMAIN summary : HintAt(summary, p) # <<>>}
    IN  IF found = {} THEN <<>>
        ELSE HintAt(summary, CHOOSE p \in found : \A j \in found : p =< j)[1]

\* re.sub(r"\s+", " ", text)
RECURSIVE Squeeze(_)
Squeeze(s) ==
    IF s = <<>> THEN <<>>
    ELSE IF IsSpace(s[1])
    THEN (IF Len(s) >= 2 /\ IsSpace(s[2]) THEN Squeeze(Tail(s))
          ELSE <<" ">> \o Squeeze(Tail(s)))
    ELSE <<s[1]>> \o Squeeze(Tail(s))

\* _extract_text(el) for an element whose text is given: whitespace runs
\* become one space and the ends are stripped.
extract_text(text) == Strip(Squeeze(text))

\* A member element of a doc file: its name attribute and its summary text.
XmlMember(name, summary) == [name |-> name, summary |-> summary]

\* The files an ingestion run reads: XML doc files (well formed or not, with
\* their member elements) and the .cs files of the package directories (path
\* relative to the scanned directory, and lines).
XmlFile(well_formed, members) ==
    [kind |-> "xml", well_formed |-> well_formed, members |-> members,
     path |-> <<>>, lines |-> <<>>]
CsFile(path, lines) ==
    [kind |-> "cs", well_formed |-> TRUE, members |-> <<>>,
     path |-> path, lines |-> lines]

\* The body of parse_xml's loop for one member element: no record or one.
\* The member elements of the model have no param and no returns child.
parse_member(m) ==
    IF m.name = <<>> \/ Len(m.name) < 3 \/ m.name[2] # ":" THEN <<>>
    ELSE IF m.name[1] \notin DOMAIN PrefixMap THEN <<>>
    ELSE LET member_type == PrefixMap[m.name[1]]
             fqn == SubSeq(m.name, 3, Len(m.name))
             summary == extract_text(m.summary)
             parts == split_fqn(fqn, member_type)
             deprecated == summary # <<>> /\ DeprecatedPattern(summary)
             hint == IF deprecated THEN extract_deprecation_hint(summary)
                     ELSE <<>>
         IN  <<ApiRecord(fqn, parts.namespace, parts.class_name,
                         parts.member_name, member_type, summary, <<>>, <<>>,
                         deprecated, hint)>>

\* parse_xml(path) for a well-formed file
RECURSIVE parse_members(_)
parse_members(members) ==
    IF members = <<>> THEN <<>>
    ELSE parse_member(members[1]) \o parse_members(Tail(members))

parse_xml(file) == parse_members(file.members)

----------------------------------------------------------------------------
(* cs_doc_parser.py: the records of the documented declarations of a .cs file. *)

\* Python's str.strip(): whitespace of any kind off both ends.
StripSpace(s) ==
    LET first == FirstIn(s, 1, Spaces, FALSE)
        kept == {k \in DOMAIN s : ~IsSpace(s[k])}
    IN  IF first = 0 THEN <<>>
        ELSE SubSeq(s, first, CHOOSE k \in kept : \A j \in kept : j =< k)

tagSummary == <<"<", "s", "u", "m", "m", "a", "r", "y", ">">>
tagSummaryEnd == <<"<", "/", "s", "u", "m", "m", "a", "r", "y", ">">>
tagReturns == <<"<", "r", "e", "t", "u", "r", "n", "s", ">">>
tagReturnsEnd == <<"<", "/", "r", "e", "t", "u", "r", "n", "s", ">">>

\* re.search of open(.*?)close: the group in a tuple, or the empty tuple.
\* With dotall the group may span lines (_SUMMARY_RE); without, it may not
\* (_RETURNS_RE), and an opening whose line has no closing is passed over.
RECURSIVE ElementText(_, _, _, _, _)
ElementText(s, p, open, close, dotall) ==
    LET a == Find(s, p, open)
        z == IF a = 0 THEN 0 ELSE Find(s, a + Len(open), close)
        group == SubSeq(s, a + Len(open), z - 1)
    IN  IF a = 0 \/ z = 0 THEN <<>>
        ELSE IF dotall \/ (\A k \in DOMAIN group : group[k] # "\n")
        THEN <<group>>
        ELSE ElementText(s, a + 1, open, close, dotall)

\* _SEE_CREF_RE matched at the head of s: <see\s+cref=["']([^"']+)["']\s*/>;
\* the end of the match and the group, or the empty tuple.
SeeCrefAt(s) ==
    LET quotes == {"\"", "'"}
        a == FirstIn(s, 5, Spaces, FALSE)
        b == FirstIn(s, a + 6, quotes, TRUE)
        c == FirstIn(s, b + 1, Spaces, FALSE)
    IN  IF /\ StartsAt(s, 1, <<"<", "s", "e", "e">>)
           /\ a > 5
           /\ StartsAt(s, a, <<"c", "r", "e", "f", "=">>)
           /\ a + 5 =< Len(s) /\ s[a + 5] \in quotes
           /\ b > a + 6
           /\ c # 0
           /\ StartsAt(s, c, <<"/", ">">>)
        THEN <<[to |-> c + 1, cref |-> SubSeq(s, a + 6, b - 1)]>>
        ELSE <<>>

\* _SEE_CREF_RE.sub(lambda m: m.group(1).split(".")[-1], text)
RECURSIVE SubSeeCref(_)
SubSeeCref(s) ==
    IF s = <<>> THEN <<>>
    ELSE LET m == SeeCrefAt(s)
         IN  IF m # <<>>
             THEN LastSegment(m[1].cref) \o SubSeeCref(SubSeq(s, m[1].to + 1, Len(s)))
             ELSE <<s[1]>> \o SubSeeCref(Tail(s))

\* _XML_TAG_RE.sub("", text), the tag being <[^>]+>
RECURSIVE StripTags(_)
StripTags(s) ==
    IF s = <<>> THEN <<>>
    ELSE LET g == FirstIn(s, 2, {">"}, TRUE)
         IN  IF s[1] = "<" /\ g >= 3
             THEN StripTags(SubSeq(s, g + 1, Len(s)))
             ELSE <<s[1]>> \o StripTags(Tail(s))

\* _clean_xml_text(text)
clean_xml_text(text) == Strip(Squeeze(StripTags(SubSeeCref(text))))

\* A source line as the parser sees it: what each of its regular expressions
\* matches on it, the group in a tuple, or the empty tuple for no match
\* (doc for _DOC_COMMENT_LINE and _is_doc_comment, namespace for
\* _NAMESPACE_RE, class for _CLASS_RE, and so on; the member name is the
\* group kept).
OtherLine ==
    [doc |-> <<>>, namespace |-> <<>>, class |-> <<>>, event |-> <<>>,
     method |-> <<>>, property |-> <<>>, field |-> <<>>]
DocLine(text) == [OtherLine EXCEPT !.doc = <<text>>]
NamespaceLine(name) == [OtherLine EXCEPT !.namespace = <<name>>]
ClassLine(name) == [OtherLine EXCEPT !.class = <<name>>]
EventLine(name) == [OtherLine EXCEPT !.event = <<name>>]
MethodLine(name) == [OtherLine EXCEPT !.method = <<name>>]
PropertyLine(name) == [OtherLine EXCEPT !.property = <<name>>]
FieldLine(name) == [OtherLine EXCEPT !.field = <<name>>]

Newline == <<"\n">>

\* A plausible slip: only the comment line right above the declaration counts.
DocText_last_line(lines, a, z) == lines[z].doc[1]

\* "\n".join of the groups of the doc lines a .. z
DocText(lines, a, z) == Join([k \in 1 .. (z - a + 1) |-> lines[a + k - 1].doc[1]], Newline)

\* The first line of the run of doc lines that ends on line z.
RECURSIVE RunStart(_, _)
RunStart(lines, z) ==
    IF z >= 2 /\ lines[z - 1].doc # <<>> THEN RunStart(lines, z - 1) ELSE z

\* The summary _extract_doc_block(lines, decl_index) returns: that of the doc
\* lines right above the declaration, "" when there is none.
extract_doc_block(lines, decl_index) ==
    IF decl_index = 1 \/ lines[decl_index - 1].doc = <<>> THEN <<>>
    ELSE LET doc_text == DocText(lines, RunStart(lines, decl_index - 1),
                                 decl_index - 1)
             summary_match == ElementText(doc_text, 1, tagSummary,
                                          tagSummaryEnd, TRUE)
         IN  IF summary_match # <<>> THEN StripSpace(summary_match[1])
             ELSE doc_text

\* A plausible slip: the namespace is left out of the name.
Qualified_without_namespace(namespace, name) == name

\* f"{namespace}.{name}" if namespace else name
Qualified(namespace, name) ==
    IF namespace # <<>> THEN namespace \o Dot \o name ELSE name

Accessors ==
    {<<"g", "e", "t">>, <<"s", "e", "t">>, <<"a", "d", "d">>,
     <<"r", "e", "m", "o", "v", "e">>}

Keywords ==
    {<<"c", "l", "a", "s", "s">>, <<"s", "t", "r", "u", "c", "t">>,
     <<"i", "n", "t", "e", "r", "f", "a", "c", "e">>, <<"e", "n", "u", "m">>,
     <<"n", "a", "m", "e", "s", "p", "a", "c", "e">>, <<"i", "f">>,
     <<"e", "l", "s", "e">>, <<"f", "o", "r">>, <<"w", "h", "i", "l", "e">>,
     <<"s", "w", "i", "t", "c", "h">>, <<"t", "r", "y">>,
     <<"c", "a", "t", "c", "h">>}

\* A plausible slip: the field grammar is tried before the others.
first_member_match_field_first(decl_line) ==
    IF decl_line.field # <<>> THEN "field"
    ELSE IF decl_line.event # <<>> THEN "event"
    ELSE IF decl_line.method # <<>> THEN "method"
    ELSE IF decl_line.property # <<>> THEN "property"
    ELSE "none"

\* The member grammar _parse_declaration stops at: the first that matches
\* the line, tried in the order event, method, property, field.
first_member_match(decl_line) ==
    IF decl_line.event # <<>> THEN "event"
    ELSE IF decl_line.method # <<>> THEN "method"
    ELSE IF decl_line.property # <<>> THEN "property"
    ELSE IF decl_line.field # <<>> THEN "field"
    ELSE "none"

\* _parse_declaration(decl_line, doc_text, namespace, class_name): no record
\* or one. The doc texts of the model have no param element.
parse_declaration(decl_line, doc_text, namespace, class_name) ==
    LET summary_match == ElementText(doc_text, 1, tagSummary, tagSummaryEnd, TRUE)
        summary == clean_xml_text(IF summary_match # <<>>
                                  THEN StripSpace(summary_match[1])
                                  ELSE doc_text)
        returns_match == ElementText(doc_text, 1, tagReturns, tagReturnsEnd, FALSE)
        returns_text == IF returns_match # <<>>
                        THEN clean_xml_text(returns_match[1]) ELSE <<>>
        deprecated == DeprecatedPattern(summary)
        hint == IF deprecated THEN extract_deprecation_hint(summary) ELSE <<>>
        Built(name, member_type) ==
            <<ApiRecord(Qualified(namespace, class_name \o Dot \o name),
                        namespace, class_name, name, member_type, summary,
                        <<>>, returns_text, deprecated, hint)>>
    IN  IF summary = <<>> \/ Len(summary) < 3 THEN <<>>
        ELSE IF decl_line.class # <<>>
        THEN <<ApiRecord(Qualified(namespace, decl_line.class[1]), namespace,
                         decl_line.class[1], <<>>, sType, summary, <<>>,
                         returns_text, deprecated, hint)>>
        ELSE IF class_name = <<>> THEN <<>>
        ELSE IF first_member_match(decl_line) = "event"
        THEN Built(decl_line.event[1], sEvent)
        ELSE IF first_member_match(decl_line) = "method"
        THEN (IF decl_line.method[1] \in Accessors THEN <<>>
              ELSE Built(decl_line.method[1], sMethod))
        ELSE IF first_member_match(decl_line) = "property"
        THEN (IF decl_line.property[1] \in Keywords THEN <<>>
              ELSE Built(decl_line.property[1], sProperty))
        ELSE IF first_member_match(decl_line) = "field"
        THEN Built(decl_line.field[1], sField)
        ELSE <<>>

\* A plausible slip: the scan steps over one comment line only.
RunEnd_one_line(lines, i) == i + 1

\* Where the inner loop over a comment run that starts on line i stops: the
\* first line from i on that is no comment, or past the last line.
RunEnd(lines, i) ==
    LET after == {k \in i .. Len(lines) : lines[k].doc = <<>>}
    IN  IF after = {} THEN Len(lines) + 1
        ELSE CHOOSE k \in after : \A j \in after : k =< j

\* One turn of the while loop of _parse_cs_file on the line at s.i.
scan_step(lines, s) ==
    LET line == lines[s.i]
        namespace == s.current_namespace
    IN  IF line.namespace # <<>>
        THEN [s EXCEPT !.current_namespace = line.namespace[1], !.i = s.i + 1]
        ELSE IF line.class # <<>> /\ line.doc = <<>>
        THEN LET doc_block == extract_doc_block(lines, s.i)
                 class_name == line.class[1]
                 summary == clean_xml_text(doc_block)
                 deprecated == DeprecatedPattern(summary)
                 record == ApiRecord(Qualified(namespace, class_name), namespace,
                                     class_name, <<>>, sType, summary, <<>>, <<>>,
                                     deprecated,
                                     IF deprecated
                                     THEN extract_deprecation_hint(summary)
                                     ELSE <<>>)
             IN  [s EXCEPT !.class_stack = Append(@, class_name),
                           !.records = IF doc_block # <<>> THEN Append(@, record)
                                       ELSE @,
                           !.i = s.i + 1]
        ELSE IF line.doc # <<>>
        THEN LET i == RunEnd(lines, s.i)
             IN  IF i =< Len(lines)
                 THEN [s EXCEPT
                         !.records =
                             @ \o parse_declaration(
                                      lines[i], DocText(lines, s.i, i - 1),
                                      namespace,
                                      IF s.class_stack # <<>>
                                      THEN s.class_stack[Len(s.class_stack)]
                                      ELSE <<>>),
                         !.i = i]
                 ELSE [s EXCEPT !.i = i]
        ELSE [s EXCEPT !.i = s.i + 1]

SkipWords ==
    {<<"t", "e", "s", "t">>, <<"s", "a", "m", "p", "l", "e">>,
     <<"e", "x", "a", "m", "p", "l", "e">>,
     <<"d", "o", "c", "c", "o", "d", "e">>}

\* A plausible slip: the path is compared as it is written.
Skipped_case_sensitive(rel) ==
    \E skip \in SkipWords : Find(rel, 1, skip) # 0

\* any(skip in rel.lower() for skip in ("test", "sample", "example", "doccode"))
Skipped(rel) ==
    \E skip \in SkipWords : \E p \in DOMAIN rel : HasAt(rel, p, skip)

----------------------------------------------------------------------------
(* ingest.main: one run over the XML doc files, then the .cs files of the
   package directories, then the rebuild of the store. *)

MaxSegs == 4
MaxWords == 3
MaxFiles == 3
MaxLines == 4
MaxEditors == 2
MaxProcs == 2
MaxBlocks == 2

sA == <<"A">>
sB == <<"b">>
sC == <<"C">>
sN == <<"N">>
sM == <<"m">>

\* Member names: a prefix, dot-separated segments (some empty), and for some
\* a parameter list with dots of its own.
Prefixes ==
    {<<"T", ":">>, <<"M", ":">>, <<"P", ":">>, <<"F", ":">>, <<"E", ":">>,
     <<"X", ":">>, <<"T">>, <<>>}
SegLists(max) == UNION {[1 .. n -> {sA, sB, <<>>}] : n \in 1 .. max}
ParamLists == {<<>>, <<"(", ")">>, <<"(", "A", ".", "b", ")">>}
Names(max) ==
    {p \o Join(segs, Dot) \o params :
        p \in Prefixes, segs \in SegLists(max), params \in ParamLists}

\* Summaries: up to max words, some empty, separated by single spaces.
SummaryWords ==
    {<<"o", "b", "s", "o", "l", "e", "t", "e", ".">>,
     <<"D", "e", "p", "r", "e", "c", "a", "t", "e", "d">>,
     <<"U", "s", "e">>, <<"U", "S", "E">>, <<"u", "s", "e">>,
     <<"X", ".", "Y">>, <<"Z">>, sInstead, <<"m", "i", "s", "u", "s", "e">>,
     <<>>}
Summaries(max) ==
    {Join(ws, Space) : ws \in UNION {[1 .. n -> SummaryWords] : n \in 0 .. max}}

sPlain == <<"c", "a", "s", "t", "s", " ", "i", "t">>
NamedFiles(max) ==
    {<<XmlFile(TRUE, <<XmlMember(name, sPlain)>>)>> : name \in Names(max)}

\* The documented method m of class C, in a file of its own.
DocumentedMethod(summary) ==
    <<ClassLine(sC), DocLine(tagSummary \o summary \o tagSummaryEnd), MethodLine(sM)>>
sFileA == <<"a", ".", "c", "s">>
SummaryFiles(max) ==
    {<<XmlFile(TRUE, <<XmlMember(<<"M", ":">> \o sA \o Dot \o sB, s)>>)>> :
        s \in Summaries(max)}
    \cup {<<CsFile(sFileA, DocumentedMethod(s))>> : s \in Summaries(max)}

\* Runs over several doc files, some of them malformed, with or without a
\* package file after them.
XmlPool ==
    {XmlFile(TRUE, <<XmlMember(<<"T", ":">> \o sA \o Dot \o sB, sPlain)>>),
     XmlFile(TRUE, <<XmlMember(<<"M", ":">> \o sA \o Dot \o sB \o Dot \o sM, sPlain),
                     XmlMember(<<"!", ":">> \o sA, sPlain)>>),
     XmlFile(FALSE, <<XmlMember(<<"T", ":">> \o sN \o Dot \o sC, sPlain)>>)}
Batches(max) ==
    {xs \o cs : xs \in UNION {[1 .. n -> XmlPool] : n \in 1 .. max},
                cs \in {<<>>, <<CsFile(sFileA, DocumentedMethod(sPlain))>>}}

\* Package files by their relative path, each with the same documented method.
Paths ==
    {sFileA,
     <<"b", ".", "c", "s">>,
     <<"T", "e", "s", "t", "s", "/", "a", ".", "c", "s">>,
     <<"x", "/", "S", "a", "m", "p", "l", "e", ".", "c", "s">>,
     <<"E", "X", "A", "M", "P", "L", "E", "S", "/", "a", ".", "c", "s">>,
     <<"D", "o", "c", "C", "o", "d", "e", "/", "a", ".", "c", "s">>,
     <<"L", "a", "t", "e", "s", "t", ".", "c", "s">>,
     <<"t", "e", "s", "/", "t", ".", "c", "s">>}
PathFiles ==
    {[k \in 1 .. n |-> CsFile(ps[k], DocumentedMethod(sPlain \o <<" ">> \o ps[k]))] :
        n \in 1 .. 2, ps \in [1 .. 2 -> Paths]}

\* Package files by their lines: up to max lines of a few kinds, and the
\* declarations of each kind under each doc comment.
docAbc == DocLine(tagSummary \o <<"a", "b", "c">> \o tagSummaryEnd)
docOpen == DocLine(tagSummary \o <<"a", "b">>)
docClose == DocLine(<<"c">> \o tagSummaryEnd)
LinePool ==
    {docAbc, docOpen, docClose, OtherLine, ClassLine(sC), MethodLine(sM),
     FieldLine(sB)}
DocPool ==
    {docAbc, docOpen,
     DocLine(<<"<", "i", "n", "h", "e", "r", "i", "t", "d", "o", "c", "/", ">">>),
     DocLine(<<"a", " ", "<", "s", "e", "e", " ", "c", "r", "e", "f", "=", "\"",
               "A", ".", "b", "\"", "/", ">">>),
     DocLine(<<"a", "b", "c", " ">> \o tagReturns \o <<"a", "\t", "b">> \o tagReturnsEnd)}
\* Declaration lines: every combination of what the five declaration
\* expressions may match on a line, the names an accessor and a keyword too.
DeclPool ==
    {[OtherLine EXCEPT !.class = c, !.event = ev, !.method = m, !.property = p,
                       !.field = f] :
        c \in {<<>>, <<sA>>}, ev \in {<<>>, <<sB>>},
        m \in {<<>>, <<sM>>, <<<<"g", "e", "t">>>>},
        p \in {<<>>, <<sB>>, <<<<"i", "f">>>>}, f \in {<<>>, <<sB>>}}
LineFiles(max) ==
    {<<CsFile(sFileA, lines)>> :
        lines \in UNION {[1 .. n -> LinePool] : n \in 0 .. max}}
    \cup {<<CsFile(sFileA, head \o <<doc, decl>>)>> :
             head \in {<<>>, <<ClassLine(sC)>>, <<NamespaceLine(sN), ClassLine(sC)>>,
                       <<NamespaceLine(sA \o Dot \o sN), ClassLine(sC)>>},
             doc \in DocPool, decl \in DeclPool}

\* Package files by their scopes: up to max lines among two namespace
\* declarations, two types, a comment and a method; and one file that has
\* them all.
ScopePool ==
    {NamespaceLine(sN), NamespaceLine(sA \o Dot \o sN), ClassLine(sC),
     ClassLine(sA), docAbc, MethodLine(sM)}
NestedFile ==
    <<NamespaceLine(sN), ClassLine(sC), NamespaceLine(sA \o Dot \o sN),
      ClassLine(sA), docAbc, MethodLine(sM)>>
ScopeFiles(max) ==
    {<<CsFile(sFileA, lines)>> :
        lines \in UNION {[1 .. n -> ScopePool] : n \in 1 .. max} \cup {NestedFile}}

\* ---- unity_paths: locating the XML doc files ----

sUnityEngineXml == "UnityEngine.xml"
sUnityEditorXml == "UnityEditor.xml"
sOtherXml == "mscorlib.xml"

\* _TOP_XML_FILES
TOP_XML_FILES == <<sUnityEngineXml, sUnityEditorXml>>

\* _VERSION_PREFIXES, in the order of the dict
VERSION_PREFIXES ==
    <<[version |-> "6", prefix |-> <<"6", "0", "0", "0", ".">>],
      [version |-> "2023", prefix |-> <<"2", "0", "2", "3", ".">>],
      [version |-> "2022", prefix |-> <<"2", "0", "2", "2", ".">>]>>

\* An entry of a Hub/Editor directory, or the directory UNITY_INSTALL_PATH
\* names: whether it is a directory, whether Editor/Data/Managed is a directory
\* under it, and the files of that directory.
Root(name, is_dir, managed, top) ==
    [name |-> name, is_dir |-> is_dir, managed |-> managed, top |-> top]

\* What locating returns or raises.
Found(root) == [ok |-> TRUE, error |-> "", root |-> root]
errManaged == "UNITY_INSTALL_PATH set but Managed dir not found"
errInstall == "Could not find Unity installation. Set UNITY_INSTALL_PATH env var"
errNoXml == "No XML files found. Check your Unity installation."
NotFound(error) == [ok |-> FALSE, error |-> error, root |-> Root(<<>>, FALSE, FALSE, {})]

\* The prefixes _find_unity_root searches for: the one of the version asked
\* for, or all of them when the version is none of the dict's keys.
SearchPrefixes(unity_version) ==
    IF \E k \in 1 .. Len(VERSION_PREFIXES) : VERSION_PREFIXES[k].version = unity_version
    THEN <<(CHOOSE v \in Range(VERSION_PREFIXES) : v.version = unity_version).prefix>>
    ELSE [k \in 1 .. Len(VERSION_PREFIXES) |-> VERSION_PREFIXES[k].prefix]

\* The loop over sorted(root.iterdir(), reverse=True): the first entry from
\* the k-th on that is a directory, starts with the prefix and has a Managed
\* directory.
RECURSIVE FirstChild(_, _, _)
FirstChild(children, prefix, k) ==
    IF k > Len(children) THEN <<>>
    ELSE IF /\ children[k].is_dir
            /\ StartsAt(children[k].name, 1, prefix)
            /\ children[k].managed
         THEN <<children[k]>>
         ELSE FirstChild(children, prefix, k + 1)

\* The loops over prefixes and search roots, from prefix p and root r on.  A
\* root that does not exist, or whose listing raises PermissionError, is passed.
RECURSIVE SearchRoots(_, _, _, _)
SearchRoots(prefixes, roots, p, r) ==
    IF p > Len(prefixes) THEN <<>>
    ELSE IF r > Len(roots) THEN SearchRoots(prefixes, roots, p + 1, 1)
    ELSE LET hit == IF roots[r].exists /\ roots[r].readable
                    THEN FirstChild(roots[r].children, prefixes[p], 1)
                    ELSE <<>>
         IN  IF hit # <<>> THEN hit ELSE SearchRoots(prefixes, roots, p, r + 1)

\* _find_unity_root
find_unity_root(inst) ==
    IF inst.env # <<>>
    THEN IF inst.env[1].managed THEN Found(inst.env[1]) ELSE NotFound(errManaged)
    ELSE LET hit == SearchRoots(SearchPrefixes(inst.version), inst.roots, 1, 1)
         IN  IF hit # <<>> THEN Found(hit[1]) ELSE NotFound(errInstall)

\* find_xml_paths, without the check that a top-level file was found.
find_xml_paths_any(inst) == find_unity_root(inst)

\* find_xml_paths: the root found, when one of the top-level files is a file
\* of its Managed directory.
find_xml_paths(inst) ==
    LET located == find_unity_root(inst)
    IN  IF ~located.ok THEN located
        ELSE IF located.root.top \cap Range(TOP_XML_FILES) = {} THEN NotFound(errNoXml)
        ELSE located

\* The installs of the runs.  The entries of a search root are some of these,
\* in the order sorted(..., reverse=True) gives them.
sSix == <<"6", "0", "0", "0">>
ChildPool ==
    <<Root(sSix \o <<".", "9">>, FALSE, FALSE, {}),
      Root(sSix \o <<".", "1">>, TRUE, TRUE, {sOtherXml}),
      Root(sSix \o <<".", "0">>, TRUE, TRUE, {sUnityEngineXml, sOtherXml}),
      Root(sSix, TRUE, TRUE, {sUnityEngineXml, sUnityEditorXml}),
      Root(<<"2", "0", "2", "2", ".", "3">>, TRUE, TRUE, {sUnityEditorXml}),
      Root(<<"2", "0", "2", "2", ".", "1">>, TRUE, FALSE, {})>>
RECURSIVE Chosen(_, _, _)
Chosen(pool, picked, k) ==
    IF k > Len(pool) THEN <<>>
    ELSE (IF k \in picked THEN <<pool[k]>> ELSE <<>>) \o Chosen(pool, picked, k + 1)
SearchRoot(exists, readable, children) ==
    [exists |-> exists, readable |-> readable, children |-> children]
Listings(max) ==
    {SearchRoot(TRUE, TRUE, Chosen(ChildPool, picked, 1)) :
        picked \in {s \in SUBSET (1 .. Len(ChildPool)) : Cardinality(s) =< max}}
    \cup {SearchRoot(FALSE, FALSE, <<>>), SearchRoot(TRUE, FALSE, <<ChildPool[3]>>)}
EnvPool ==
    {<<>>,
     <<Root(<<"H">>, TRUE, TRUE, {sUnityEngineXml})>>,
     <<Root(<<"H">>, TRUE, TRUE, {sOtherXml})>>,
     <<Root(<<"H">>, TRUE, FALSE, {})>>}
Install(version, env, roots) == [version |-> version, env |-> env, roots |-> roots]
Installs(max) ==
    {Install(v, env, <<root>>) :
        v \in {"6", "2022", "2021"}, env \in EnvPool, root \in Listings(max)}
    \cup {Install("6", <<>>, <<SearchRoot(TRUE, FALSE, <<ChildPool[3]>>),
                               SearchRoot(TRUE, TRUE, <<ChildPool[5]>>),
                               SearchRoot(TRUE, TRUE, <<ChildPool[3]>>)>>)}
HubInstall == Install("6", <<>>, <<SearchRoot(TRUE, TRUE, <<ChildPool[3]>>)>>)

\* The doc files of an install, in the order find_xml_paths gives them: the
\* top-level files of the root found.
docEngine == XmlFile(TRUE, <<>>)
docEditor == XmlFile(TRUE, <<XmlMember(<<"T", ":">> \o sA \o Dot \o sB, sPlain)>>)
TopFiles(inst) ==
    LET top == find_unity_root(inst).root.top
    IN  (IF sUnityEngineXml \in top THEN <<docEngine>> ELSE <<>>)
        \o (IF sUnityEditorXml \in top THEN <<docEditor>> ELSE <<>>)

\* A run's files begin with a top-level doc file.
WithTop(docs) ==
    IF docs # <<>> /\ docs[1].kind = "xml" THEN docs ELSE <<docEngine>> \o docs

\* A snapshot of an earlier run at the output path.
OldDb == insert_records(clear_all(NoDb), <<recRay>>)

InitRun ==
    /\ pc = "locate"
    /\ all_records = <<>>
    /\ last_batch = <<>>
    /\ since_clear = <<>>
    /\ query = <<>>
    /\ \/ /\ install = HubInstall
          /\ \/ \E docs \in NamedFiles(MaxSegs) : files = WithTop(docs)
             \/ \E docs \in SummaryFiles(MaxWords) : files = WithTop(docs)
             \/ \E docs \in Batches(MaxFiles) : files = WithTop(docs)
             \/ \E docs \in PathFiles : files = WithTop(docs)
             \/ \E docs \in LineFiles(MaxLines) : files = WithTop(docs)
             \/ \E docs \in ScopeFiles(MaxLines) : files = WithTop(docs)
          /\ prior = NoDb
       \/ /\ install \in Installs(MaxEditors)
          /\ \E docs \in {<<>>, <<CsFile(sFileA, DocumentedMethod(sPlain))>>} :
                 files = TopFiles(install) \o docs
          /\ prior \in {NoDb, OldDb}
    /\ tables = prior.tables
    /\ api_records = prior.records
    /\ api_fts = prior.fts
    /\ scan = NoScan
    /\ fs = NoFs
    /\ procs = <<>>
    /\ result = NoResult

\* main, phase 1: unity_paths.find_xml_paths(unity_version).  On
\* FileNotFoundError the message is printed and the process exits with 1.
Locate ==
    /\ pc = "locate"
    /\ pc' = IF find_xml_paths(install).ok THEN "parse" ELSE "exit"
    /\ UNCHANGED <<tables, api_records, api_fts, all_records, prior, last_batch,
                   since_clear, query, files, install, fs, procs, scan, result>>

Parsing(kind) ==
    /\ pc = "parse"
    /\ scan.file =< Len(files)
    /\ files[scan.file].kind = kind

\* main, phase 1: xml_parser.parse_xml(path) and all_records.extend(records).
\* etree.parse raises on a file that is not well formed; nothing in main
\* catches it, so the run ends there with the store as it was.
ParseXml ==
    /\ Parsing("xml")
    /\ IF files[scan.file].well_formed
       THEN /\ all_records' = all_records \o parse_xml(files[scan.file])
            /\ scan' = ScanAt(scan.file + 1)
            /\ pc' = pc
       ELSE /\ pc' = "failed"
            /\ UNCHANGED <<all_records, scan>>
    /\ UNCHANGED <<tables, api_records, api_fts, prior, last_batch, since_clear,
                   query, files, install, fs, procs, result>>

\* parse_cs_directory: a file whose relative path holds a skip word is passed.
SkipCsFile ==
    /\ Parsing("cs")
    /\ Skipped(files[scan.file].path)
    /\ scan' = ScanAt(scan.file + 1)
    /\ UNCHANGED <<tables, api_records, api_fts, pc, all_records, prior,
                   last_batch, since_clear, query, files, install, fs, procs, result>>

\* _parse_cs_file: one turn of its loop over the lines.
ScanLine ==
    /\ Parsing("cs")
    /\ ~Skipped(files[scan.file].path)
    /\ scan.i =< Len(files[scan.file].lines)
    /\ scan' = scan_step(files[scan.file].lines, scan)
    /\ UNCHANGED <<tables, api_records, api_fts, pc, all_records, prior,
                   last_batch, since_clear, query, files, install, fs, procs, result>>

\* _parse_cs_file returns; records.extend(file_records) in parse_cs_directory
\* and all_records.extend(records) in main.
CloseCsFile ==
    /\ Parsing("cs")
    /\ ~Skipped(files[scan.file].path)
    /\ scan.i > Len(files[scan.file].lines)
    /\ all_records' = all_records \o scan.records
    /\ scan' = ScanAt(scan.file + 1)
    /\ UNCHANGED <<tables, api_records, api_fts, pc, prior, last_batch,
                   since_clear, query, files, install, fs, procs, result>>

\* main, phase 3: db.clear_all(conn) and db.insert_records(conn, all_records).
WriteStore ==
    /\ pc = "parse"
    /\ scan.file > Len(files)
    /\ SetDb(insert_records(clear_all(Cur), all_records))
    /\ since_clear' = all_records
    /\ last_batch' = all_records
    /\ pc' = "done"
    /\ UNCHANGED <<all_records, prior, query, files, install, fs, procs, scan, result>>

NextRun ==
    \/ Locate
    \/ ParseXml
    \/ SkipCsFile
    \/ ScanLine
    \/ CloseCsFile
    \/ WriteStore

SpecRun == InitRun /\ [][NextRun]_vars

----------------------------------------------------------------------------
(* Claims about the two parsers and the ingestion run. *)

\* The split of a record's fqn as the parts of its name: the dot-segments of
\* the fqn before its parameter list.
SplitAsClaimed(r) ==
    LET segs == SplitOn(SplitOn(r.fqn, "(", <<>>)[1], ".", <<>>)
        n == Len(segs)
        Rest(m) == Join(SubSeq(segs, 1, m), Dot)
    IN  IF r.member_type = sType
        THEN r.class_name = segs[n] /\ r.namespace = Rest(n - 1)
             /\ r.member_name = <<>>
        ELSE IF n >= 3
        THEN r.member_name = segs[n] /\ r.class_name = segs[n - 1]
             /\ r.namespace = Rest(n - 2)
        ELSE IF n = 2
        THEN r.member_name = segs[2] /\ r.class_name = segs[1]
             /\ r.namespace = <<>>
        ELSE r.member_name = segs[1] /\ r.class_name = <<>>
             /\ r.namespace = <<>>

HasParamList(fqn) == \E k \in DOMAIN fqn : fqn[k] = "("

RECURSIVE WithoutFullStop(_)
WithoutFullStop(token) ==
    IF token # <<>> /\ token[Len(token)] = "."
    THEN WithoutFullStop(SubSeq(token, 1, Len(token) - 1))
    ELSE token

\* The whitespace-delimited tokens that follow a word use or Use in a summary.
TokensAfterUse(summary) ==
    LET tokens == SplitOn(summary, " ", <<>>)
    IN  {tokens[k + 1] : k \in {j \in 1 .. (Len(tokens) - 1) :
                                   tokens[j] \in {sUse, <<"U", "s", "e">>}}}

\* C16: in the records of both parsers deprecated is set exactly when the
\* summary holds, in any letter case, the word obsolete, the word deprecated
\* or use <token> instead; and a deprecated record whose summary has the
\* word use followed by a token has, as its hint, the first such token (the
\* full stop that ends a sentence apart).
C16_HintIsTokenAfterUse ==
    \A k \in DOMAIN all_records :
       LET r == all_records[k]
           tokens == SplitOn(r.summary, " ", <<>>)
           uses == {j \in 1 .. (Len(tokens) - 1) :
                       tokens[j] \in {sUse, <<"U", "s", "e">>}}
           first == CHOOSE j \in uses : \A i \in uses : j =< i
       IN  /\ r.deprecated = DeprecatedPattern(r.summary)
           /\ (r.deprecated /\ uses # {}) =>
                 r.deprecation_hint \in
                    {tokens[first + 1], WithoutFullStop(tokens[first + 1])}

\* C17: a run is not stopped by an XML file that is not well formed: it never
\* ends at such a file, with the files after it unread and the store not
\* rebuilt.
C17_MalformedXmlDoesNotStopRun ==
    \A f \in DOMAIN files :
       (files[f].kind = "xml" /\ ~files[f].well_formed /\ scan.file = f)
          => pc # "failed"

\* The records _parse_cs_file returns for the lines of a file: the loop run
\* from a state to the end of the lines.
RECURSIVE ScanFrom(_, _)
ScanFrom(lines, s) ==
    IF s.i > Len(lines) THEN s.records ELSE ScanFrom(lines, scan_step(lines, s))

\* Whether a relative path, written in lower case, holds one of the four words.
HoldsSkipWord(path) ==
    \E word \in {<<"t", "e", "s", "t">>, <<"s", "a", "m", "p", "l", "e">>,
                 <<"e", "x", "a", "m", "p", "l", "e">>,
                 <<"d", "o", "c", "c", "o", "d", "e">>} :
       Find([k \in DOMAIN path |-> Lower(path[k])], 1, word) # 0

\* What the first n files of a run are to contribute: an XML file its
\* records, a .cs file its records unless its path holds a skip word.
RECURSIVE Contribution(_)
Contribution(n) ==
    IF n = 0 THEN <<>>
    ELSE Contribution(n - 1) \o
         (IF files[n].kind = "xml" THEN parse_xml(files[n])
          ELSE IF HoldsSkipWord(files[n].path) THEN <<>>
          ELSE ScanFrom(files[n].lines, NoScan))

Declared(lines, d) ==
    LET line == lines[d]
        in_class == \E c \in 1 .. (d - 1) : lines[c].class # <<>>
        Of(kind, name) == <<[member_type |-> kind, name |-> name]>>
    IN  IF line.doc # <<>> \/ line.namespace # <<>> THEN <<>>
        ELSE IF line.class # <<>> THEN Of(sType, line.class[1])
        ELSE IF ~in_class THEN <<>>
        ELSE IF line.event # <<>> THEN Of(sEvent, line.event[1])
        ELSE IF line.method # <<>>
        THEN (IF line.method[1] \in Accessors THEN <<>>
              ELSE Of(sMethod, line.method[1]))
        ELSE IF line.property # <<>>
        THEN (IF line.property[1] \in Keywords THEN <<>>
              ELSE Of(sProperty, line.property[1]))
        ELSE IF line.field # <<>> THEN Of(sField, line.field[1])
        ELSE <<>>

\* The summary of the longest run of comment lines that ends right above
\* line d: its summary element, or all of it, without tags.
SummaryAbove(lines, d) ==
    LET starts == {a \in 1 .. (d - 1) : \A k \in a .. (d - 1) : lines[k].doc # <<>>}
        a == CHOOSE x \in starts : \A y \in starts : x =< y
        text == Join([k \in 1 .. (d - a) |-> lines[a + k - 1].doc[1]], Newline)
        element == ElementText(text, 1, tagSummary, tagSummaryEnd, TRUE)
    IN  clean_xml_text(IF element # <<>> THEN element[1] ELSE text)

Commented(lines, d) == d >= 2 /\ lines[d - 1].doc # <<>>

NameOf(r) == IF r.member_type = sType THEN r.class_name ELSE r.member_name

\* C19: while a file is scanned, every declaration passed that is right
\* below a run of comment lines whose summary has 3 characters or more is
\* recorded with the summary of the whole run, and every record is that of a
\* declaration right below a run, with the summary of that run: a declaration
\* that a blank or other line separates from the comments gives none.
C19_DocBlockIsRunAbove ==
    Parsing("cs") =>
       LET lines == files[scan.file].lines
           Is(r, d) == /\ Declared(lines, d) # <<>>
                       /\ Commented(lines, d)
                       /\ r.member_type = Declared(lines, d)[1].member_type
                       /\ NameOf(r) = Declared(lines, d)[1].name
                       /\ r.summary = SummaryAbove(lines, d)
       IN  /\ \A d \in 1 .. (scan.i - 1) :
                (/\ d \in DOMAIN lines
                 /\ Declared(lines, d) # <<>>
                 /\ Commented(lines, d)
                 /\ Len(SummaryAbove(lines, d)) >= 3)
                   => \E k \in DOMAIN scan.records : Is(scan.records[k], d)
           /\ \A k \in DOMAIN scan.records :
                \E d \in DOMAIN lines : Is(scan.records[k], d)

\* A file has been scanned to its end: the method under a comment of two
\* lines is recorded with the summary both lines make.
C19_Witness ==
    /\ Parsing("cs")
    /\ files[scan.file].lines = <<ClassLine(sC), docOpen, docClose, MethodLine(sM)>>
    /\ scan.i = 5
    /\ Len(scan.records) = 1
    /\ scan.records[1].member_name = sM
    /\ scan.records[1].summary = <<"a", "b", " ", "c">>

\* C20: every record _parse_cs_file has gathered has a summary of 3
\* characters or more once tags are stripped and whitespace collapsed.
C20_NoRecordWithShortSummary ==
    \A k \in DOMAIN scan.records : Len(scan.records[k].summary) >= 3

\* C24: when the scan stands on the line below the only comment run of a
\* file, what has been recorded is decided by the first of the grammars type,
\* event, method, property, field that matches the line: one record of that
\* kind and name, or none when the summary is short, when a member has no class
\* above it, when the method name is an accessor or the property name a
\* keyword, the grammars after it not being tried.
C24_FirstGrammarDecides ==
    (/\ Parsing("cs")
     /\ scan.i = Len(files[scan.file].lines)
     /\ Commented(files[scan.file].lines, scan.i)
     /\ \A k \in 1 .. (scan.i - 2) : files[scan.file].lines[k].doc = <<>>) =>
       LET lines == files[scan.file].lines
           line == lines[scan.i]
           in_class == \E c \in 1 .. (scan.i - 1) : lines[c].class # <<>>
           long == Len(SummaryAbove(lines, scan.i)) >= 3
           One(kind, name) ==
               /\ Len(scan.records) = 1
               /\ scan.records[1].member_type = kind
               /\ NameOf(scan.records[1]) = name
       IN  IF ~long THEN scan.records = <<>>
           ELSE IF line.class # <<>> THEN One(sType, line.class[1])
           ELSE IF ~in_class THEN scan.records = <<>>
           ELSE IF line.event # <<>> THEN One(sEvent, line.event[1])
           ELSE IF line.method # <<>>
           THEN (IF line.method[1] \in {<<"g", "e", "t">>, <<"s", "e", "t">>,
                                        <<"a", "d", "d">>,
                                        <<"r", "e", "m", "o", "v", "e">>}
                 THEN scan.records = <<>>
                 ELSE One(sMethod, line.method[1]))
           ELSE IF line.property # <<>>
           THEN (IF line.property[1] \in Keywords THEN scan.records = <<>>
                 ELSE One(sProperty, line.property[1]))
           ELSE IF line.field # <<>> THEN One(sField, line.field[1])
           ELSE scan.records = <<>>

\* The scan stands on a line that both the event and the field grammar
\* match, below a comment, in a class: the record is that of an event.
C24_Witness ==
    /\ Parsing("cs")
    /\ scan.i = Len(files[scan.file].lines)
    /\ Commented(files[scan.file].lines, scan.i)
    /\ files[scan.file].lines[scan.i] =
          [OtherLine EXCEPT !.event = <<sB>>, !.field = <<sB>>]
    /\ Len(scan.records) = 1
    /\ scan.records[1].member_type = sEvent
    /\ scan.records[1].class_name = sC

\* The name in the last namespace declaration above line d, "" if none.
NamespaceAbove(lines, d) ==
    LET above == {k \in 1 .. (d - 1) : lines[k].namespace # <<>>}
    IN  IF above = {} THEN <<>>
        ELSE lines[CHOOSE k \in above : \A j \in above : j =< k].namespace[1]

\* The name of the last type declared above line d, "" if none.
TypeAbove(lines, d) ==
    LET above == {k \in 1 .. (d - 1) : lines[k].class # <<>>}
    IN  IF above = {} THEN <<>>
        ELSE lines[CHOOSE k \in above : \A j \in above : j =< k].class[1]

\* The parts that are not empty, joined by dots.
DotJoin(parts) ==
    Join(SelectSeq(parts, LAMBDA part : part # <<>>), Dot)

\* C25: each turn of the line scan gives every record it adds, for the
\* declaration on line d, the namespace of the last namespace declaration
\* above d (none: empty), to a member the last type declared above d as its
\* class, and as fqn the dot-join of the namespace, class and member names
\* that are not empty.
C25_ScopeOfRecords ==
    [][ScanLine =>
         LET lines == files[scan.file].lines
             d == IF lines[scan.i].doc # <<>> THEN scan'.i ELSE scan.i
         IN  \A k \in (Len(scan.records) + 1) .. Len(scan'.records) :
                LET r == scan'.records[k]
                IN  /\ r.namespace = NamespaceAbove(lines, d)
                    /\ r.member_type # sType => r.class_name = TypeAbove(lines, d)
                    /\ r.member_type = sType => r.class_name = lines[d].class[1]
                    /\ r.fqn = DotJoin(<<r.namespace, r.class_name, r.member_name>>)
      ]_vars

\* The file with two namespaces and two types has been scanned: its method
\* is recorded in the second namespace and the second type.
C25_Witness ==
    /\ Parsing("cs")
    /\ files[scan.file].lines = NestedFile
    /\ scan.i = 7
    /\ scan.class_stack = <<sC, sA>>
    /\ Len(scan.records) = 1
    /\ scan.records[1].fqn = sA \o Dot \o sN \o Dot \o sA \o Dot \o sM

\* C26: the scan never holds more records than it has met declaration lines:
\* a type declared right below a comment gives one type record, not two.
C26_OneRecordPerDeclaration ==
    Parsing("cs") =>
       LET lines == files[scan.file].lines
       IN  Len(scan.records) =<
              Cardinality({d \in DOMAIN lines :
                              d =< scan.i /\ Declared(lines, d) # <<>>})

\* The number of comment lines in a row from line i on.
RECURSIVE RunLength(_, _)
RunLength(lines, i) ==
    IF i =< Len(lines) /\ lines[i].doc # <<>> THEN 1 + RunLength(lines, i + 1)
    ELSE 0

\* C27: every turn of the line scan moves the line index forward, by the
\* length of the comment run on a comment line and by one on any other line,
\* and never past the line after the last: the scan of a file of n lines
\* ends within n turns.
C27_EveryTurnAdvances ==
    [][ScanLine =>
         LET lines == files[scan.file].lines
         IN  /\ scan'.i > scan.i
             /\ scan'.i =< Len(lines) + 1
             /\ scan'.i = scan.i + (IF lines[scan.i].doc # <<>>
                                    THEN RunLength(lines, scan.i) ELSE 1)
      ]_vars

\* A file that ends with a comment run of two lines has been scanned to its
\* end.
C27_Witness ==
    /\ Parsing("cs")
    /\ Len(files[scan.file].lines) = 3
    /\ files[scan.file].lines[1].doc = <<>>
    /\ files[scan.file].lines[2].doc # <<>>
    /\ files[scan.file].lines[3].doc # <<>>
    /\ scan.i = 4

\* The source cannot be located: no install is found, or the Managed
\* directory of the one found holds neither top-level file.
Unlocatable ==
    LET located == find_unity_root(install)
    IN  \/ ~located.ok
        \/ located.root.top \cap Range(TOP_XML_FILES) = {}

\* C22: when the XML doc source cannot be located, the run goes from locating
\* to its exit and nowhere else, with one of the three messages of
\* unity_paths; nothing is gathered, clear_all and insert_records are not
\* called, and the store is the one the run found.
C22_UnlocatableSourceIsFatal ==
    Unlocatable =>
        /\ pc \in {"locate", "exit"}
        /\ pc = "exit" =>
               find_xml_paths(install).error \in {errManaged, errInstall, errNoXml}
        /\ Cur = prior
        /\ all_records = <<>>
        /\ since_clear = <<>>
        /\ last_batch = <<>>

\* A run has exited over an install whose Managed directory holds no
\* top-level file, with a package file to read and an older snapshot in place.
C22_Witness ==
    /\ pc = "exit"
    /\ find_unity_root(install).ok
    /\ find_xml_paths(install).error = errNoXml
    /\ files # <<>>
    /\ Cur = OldDb
    /\ api_records # {}

\* ---- version.ensure_db: the snapshot of a version, cached, downloaded or bundled ----

\* The files of ensure_db.  The cache path (get_cache_path(version)) and the
\* temporary path (cached.with_suffix(".db.tmp"), the same for every process)
\* each name no file or one; a file is the set of the blocks of the download
\* written to it so far, and stays what it is when a path is given to it or
\* taken from it.  _BUNDLED_DB is there or not.
Fs(cache, tmp, bundled, inodes) ==
    [cache |-> cache, tmp |-> tmp, bundled |-> bundled, inodes |-> inodes]
Complete == 1 .. MaxBlocks

\* A process in ensure_db: where it is, the file it has open and how many
\* blocks it wrote, the exception it caught, and what it returned or raised.
Proc(at, fd, written, exc, out) ==
    [at |-> at, fd |-> fd, written |-> written, exc |-> exc, out |-> out]
NewProc == Proc("is_file", 0, 0, "", "")

\* One to MaxProcs processes are launched for the same version, with the
\* snapshot cached by an earlier launch or not, and bundled or not.
InitEnsure ==
    /\ tables = {}
    /\ api_records = {}
    /\ api_fts = {}
    /\ pc = "ensure"
    /\ all_records = <<>>
    /\ prior = NoDb
    /\ last_batch = <<>>
    /\ since_clear = <<>>
    /\ query = <<>>
    /\ files = <<>>
    /\ scan = NoScan
    /\ install = NoInstall
    /\ fs \in {Fs(<<>>, <<>>, b, <<>>) : b \in BOOLEAN}
               \cup {Fs(<<1>>, <<>>, b, <<Complete>>) : b \in BOOLEAN}
    /\ procs \in {[p \in 1 .. n |-> NewProc] : n \in 1 .. MaxProcs}
    /\ result = NoResult

Step(p, proc, disk) ==
    /\ procs' = [procs EXCEPT ![p] = proc]
    /\ fs' = disk
    /\ UNCHANGED <<tables, api_records, api_fts, pc, all_records, prior,
                   last_batch, since_clear, query, files, install, scan, result>>

At(p, at) == p \in DOMAIN procs /\ procs[p].at = at

\* if cached.is_file(): return cached
IsFile(p) ==
    /\ At(p, "is_file")
    /\ IF fs.cache # <<>>
       THEN Step(p, [procs[p] EXCEPT !.at = "returned", !.out = "cached"], fs)
       ELSE Step(p, [procs[p] EXCEPT !.at = "urlopen"], fs)

\* mkdir, urlopen and resp.read(): the data arrives, or URLError or OSError is
\* raised and caught, or the connection ends before the length the response
\* announced and read() raises http.client.IncompleteRead, which is neither.
Download(p) ==
    /\ At(p, "urlopen")
    /\ \/ Step(p, [procs[p] EXCEPT !.at = "open"], fs)
       \/ \E exc \in {"URLError", "OSError"} :
              Step(p, [procs[p] EXCEPT !.at = "except", !.exc = exc], fs)
       \/ Step(p, [procs[p] EXCEPT !.at = "raised", !.out = "IncompleteRead"], fs)

\* tmp.write_bytes(data), opening: the file the temporary path names is
\* emptied, or a new one is made under that name.
OpenTmp(p) ==
    /\ At(p, "open")
    /\ IF fs.tmp # <<>>
       THEN Step(p, [procs[p] EXCEPT !.at = "write", !.fd = fs.tmp[1]],
                 [fs EXCEPT !.inodes[fs.tmp[1]] = {}])
       ELSE Step(p, [procs[p] EXCEPT !.at = "write", !.fd = Len(fs.inodes) + 1],
                 [fs EXCEPT !.tmp = <<Len(fs.inodes) + 1>>,
                            !.inodes = Append(fs.inodes, {})])

\* tmp.write_bytes(data), writing: the next block goes to the open file,
\* whatever path names it by now, and the file is closed after the last one;
\* or the write raises OSError.
WriteBytes(p) ==
    /\ At(p, "write")
    /\ \/ LET n == procs[p].written + 1
          IN  Step(p, [procs[p] EXCEPT !.written = n,
                                       !.at = IF n = MaxBlocks THEN "rename" ELSE "write"],
                   [fs EXCEPT !.inodes[procs[p].fd] = @ \cup {n}])
       \/ Step(p, [procs[p] EXCEPT !.at = "except", !.exc = "OSError"], fs)

\* tmp.rename(cached): the cache path names the file the temporary path
\* named, in place of the one it named before; FileNotFoundError, an OSError,
\* when the temporary path names none.
Rename(p) ==
    /\ At(p, "rename")
    /\ IF fs.tmp # <<>>
       THEN Step(p, [procs[p] EXCEPT !.at = "returned", !.out = "cached"],
                 [fs EXCEPT !.cache = fs.tmp, !.tmp = <<>>])
       ELSE Step(p, [procs[p] EXCEPT !.at = "except", !.exc = "FileNotFoundError"], fs)

\* except (URLError, OSError): if tmp.exists()
TmpExists(p) ==
    /\ At(p, "except")
    /\ Step(p, [procs[p] EXCEPT !.at = IF fs.tmp # <<>> THEN "unlink" ELSE "bundled"], fs)

\* tmp.unlink(), which raises FileNotFoundError out of the handler when the
\* file is gone since tmp.exists().
Unlink(p) ==
    /\ At(p, "unlink")
    /\ IF fs.tmp # <<>>
       THEN Step(p, [procs[p] EXCEPT !.at = "bundled"], [fs EXCEPT !.tmp = <<>>])
       ELSE Step(p, [procs[p] EXCEPT !.at = "raised", !.out = "FileNotFoundError"], fs)

\* if _BUNDLED_DB.is_file(): return _BUNDLED_DB; raise RuntimeError(...)
Bundled(p) ==
    /\ At(p, "bundled")
    /\ IF fs.bundled
       THEN Step(p, [procs[p] EXCEPT !.at = "returned", !.out = "bundled"], fs)
       ELSE Step(p, [procs[p] EXCEPT !.at = "raised", !.out = "RuntimeError"], fs)

NextEnsure ==
    \E p \in 1 .. MaxProcs :
        \/ IsFile(p)
        \/ Download(p)
        \/ OpenTmp(p)
        \/ WriteBytes(p)
        \/ Rename(p)
        \/ TmpExists(p)
        \/ Unlink(p)
        \/ Bundled(p)

SpecEnsure == InitEnsure /\ [][NextEnsure]_vars

Finished(p) == procs[p].at \in {"returned", "raised"}

\* The download of process p failed: urlopen or read raised, or the write of
\* the temporary file did.
DownloadFailed(p) ==
    \/ procs[p].exc \in {"URLError", "OSError"}
    \/ procs[p].out = "IncompleteRead"

\* C21: a process launched alone whose download failed ends with no file at
\* the temporary path and none at the cache path, returning the bundled path
\* when the bundled file exists and raising otherwise.
C21_FailedDownloadFallsBack ==
    (Len(procs) = 1 /\ Finished(1) /\ DownloadFailed(1)) =>
        /\ fs.tmp = <<>>
        /\ fs.cache = <<>>
        /\ IF fs.bundled THEN procs[1].out = "bundled" ELSE procs[1].at = "raised"

\* No download failed: every exception caught so far came from rename.
DownloadsSucceed == \A p \in DOMAIN procs : ~DownloadFailed(p)

\* C23: while no download fails, no process raises, a process that returned
\* the cache path finds a file there, and the file the cache path names holds
\* every block of the download.
C23_ConcurrentLaunchesAreSafe ==
    DownloadsSucceed =>
        /\ \A p \in DOMAIN procs : procs[p].at # "raised"
        /\ \A p \in DOMAIN procs : procs[p].out = "cached" => fs.cache # <<>>
        /\ fs.cache # <<>> => fs.inodes[fs.cache[1]] = Complete

============================================================================
